---- MODULE Spec2Model ----
(***************************************************************************)
(* Curricular-adaptations front end: the Local Record Store                *)
(* (src/lib/storage.ts), the Remote API Client (src/lib/api.ts), the       *)
(* sign-in chain of AuthProvider and the dual-write handlers of the forms  *)
(* and of the student report view.                                         *)
(*                                                                         *)
(* JavaScript runs one handler segment at a time: the code between two     *)
(* awaits is one atomic action here, and a handler that awaits a remote    *)
(* response is parked in `op` with its position in `op.pc`.  The remote    *)
(* service is the environment: every response is chosen by \E.             *)
(*                                                                         *)
(* Strings are strings; "" is the JavaScript falsy value of a missing      *)
(* field (undefined, null and '' all take the `||` default in the code).   *)
(* localStorage values are kept as the values JSON.stringify was given:    *)
(* every record written by the code has only string fields, for which      *)
(* JSON.parse(JSON.stringify(v)) = v.                                      *)
(***************************************************************************)
EXTENDS Integers, Sequences, FiniteSets, TLC

VARIABLES
    users,          \* localStorage adaptacao_users
    students,       \* localStorage adaptacao_students
    adaptations,    \* localStorage adaptacao_adaptations
    reports,        \* localStorage adaptacao_reports
    currentUser,    \* localStorage adaptacao_current_user
    token,          \* localStorage token
    storedUser,     \* localStorage user
    user,           \* AuthProvider's React state `user`
    nextId,         \* number of identifiers generateId has handed out
    op,             \* the handler in flight, or the last one that finished
    selectedStudent, \* the id of CoordinatorDashboard's selectedStudent,
                    \* StudentReport's prop studentId; "" when none is open
    dataShown,      \* StudentReport's React state `data`
    error,          \* StudentReport's React state `error`
    load,           \* the loadReport call in flight, or the last one
    call            \* the apiFetch call in flight, or the last one

vars == <<users, students, adaptations, reports, currentUser, token,
          storedUser, user, nextId, op, selectedStudent, dataShown, error,
          load, call>>

store == <<users, students, adaptations, reports, currentUser>>
session == <<token, storedUser, user>>
studentReport == <<selectedStudent, dataShown, error, load>>

-----------------------------------------------------------------------------
(* Bounds of the model *)

\* generateId is called at most MaxIds times in a behaviour
MaxIds == 7

\* at most MaxPrepends items are put in front of the lists shown between two
\* fetches of the report
MaxPrepends == 1

\* HTTP statuses the code tests for or produces
StatusOk == 200
StatusNotFound == 404
StatusTimeout == 408
StatusServerError == 500
\* a rejected fetch (network failure): the thrown error has no status
NoStatus == 0

-----------------------------------------------------------------------------
(* Values *)

NoUser == [id |-> "", email |-> "", name |-> "", role |-> ""]

CoordEmail == "coordenador@escola.com"
ProfEmail == "professor@escola.com"

\* new Date().toISOString() and its date part at the time of the run
Now == "2024-03-01T12:00:00.000Z"
Today == "2024-03-01"

\* e-mail address and password pairs typed into the login form
Credentials ==
    { [email |-> CoordEmail, password |-> "coord123"],
      [email |-> ProfEmail, password |-> "prof123"],
      [email |-> ProfEmail, password |-> "errada"],
      [email |-> "ana@escola.com", password |-> "ana123"] }

\* String.prototype.toLowerCase on the e-mail addresses of the model
toLowerCase(s) ==
    IF s = "Ana@Escola.com" THEN "ana@escola.com" ELSE s

\* new Date(d).toISOString() of a yyyy-mm-dd value of an input[type=date]
toISOString(d) == d \o "T00:00:00.000Z"

-----------------------------------------------------------------------------
(* Sequences *)

Range(s) == {s[i] : i \in 1..Len(s)}

\* Array.prototype.findIndex, 0 for -1: the first of the indices hits, those
\* of the elements the callback accepts
FindIndex(hits) ==
    IF hits = {} THEN 0 ELSE CHOOSE i \in hits : \A j \in hits : i <= j

\* Array.prototype.find: the first element the callback accepts, else none
Find(s, hits, none) ==
    IF hits = {} THEN none ELSE s[FindIndex(hits)]

\* a || b on strings
Or(a, b) == IF a # "" THEN a ELSE b

-----------------------------------------------------------------------------
(* storage.ts: identifiers *)

\* generateId(): `${Date.now()}-${random}`; the n-th identifier handed out
generateId(n) == "g" \o ToString(n)

\* initializeDefaultUsers: the two default users, with the next two ids
defaultUsers(n) ==
    << [id |-> generateId(n + 1), email |-> CoordEmail,
        name |-> "Maria Silva", role |-> "coordenador"],
       [id |-> generateId(n + 2), email |-> ProfEmail,
        name |-> "João Santos", role |-> "professor"] >>

IsCoordinator(u) == u.role = "coordenador"
IsProfessor(u) == u.role = "professor"

\* initializeDefaultData: the two sample students
sampleStudents(n, coordinator) ==
    << [id |-> generateId(n + 1), name |-> "Ana Pereira",
        course |-> "Ensino Médio", class |-> "2A", birthDate |-> "2006-05-12",
        registrationNumber |-> "2021001", guardianName |-> "Carlos Pereira",
        guardianContact |-> "11999998888", createdAt |-> Now,
        createdBy |-> coordinator.id, updatedAt |-> "", updatedBy |-> ""],
       [id |-> generateId(n + 2), name |-> "Bruno Costa",
        course |-> "Ensino Médio", class |-> "2B", birthDate |-> "2005-08-20",
        registrationNumber |-> "2021002", guardianName |-> "Mariana Costa",
        guardianContact |-> "11988887777", createdAt |-> Now,
        createdBy |-> coordinator.id, updatedAt |-> "", updatedBy |-> ""] >>

\* sampleAdaptation that takes a fresh identifier for studentId instead of
\* the one of the first sample student
sampleAdaptationUnlinked(n, studentId, coordinator) ==
    [id |-> generateId(n + 1), studentId |-> generateId(n + 2),
     description |-> "Tempo extra para provas",
     justification |-> "Necessidade de processamento mais lento",
     date |-> Today, createdAt |-> Now, createdBy |-> coordinator.id,
     updatedAt |-> ""]

\* initializeDefaultData: the adaptation pushed for the first sample student
sampleAdaptation(n, studentId, coordinator) ==
    [id |-> generateId(n + 1), studentId |-> studentId,
     description |-> "Tempo extra para provas",
     justification |-> "Necessidade de processamento mais lento",
     date |-> Today, createdAt |-> Now, createdBy |-> coordinator.id,
     updatedAt |-> ""]

\* initializeDefaultData: the report pushed for the first sample student
sampleReport(n, studentId, professor) ==
    [id |-> generateId(n + 1), studentId |-> studentId,
     teacherId |-> professor.id,
     teacherName |-> Or(professor.name, "João Santos"),
     subject |-> "Matemática", date |-> Today, result |-> "neutro",
     description |-> "Observações sobre rendimento", createdAt |-> Now,
     updatedAt |-> ""]

-----------------------------------------------------------------------------
(* storage.ts: importUsersFromApi *)

\* users as the remote /users endpoint may return them
RemoteAna ==
    [id |-> "r1", userId |-> "", email |-> "Ana@Escola.com",
     name |-> "Ana Lima", fullName |-> "", role |-> "coordenador"]
RemoteProf ==
    [id |-> "", userId |-> "r2", email |-> ProfEmail,
     name |-> "", fullName |-> "João S.", role |-> ""]
RemoteAnon ==
    [id |-> "", userId |-> "", email |-> "ana@escola.com",
     name |-> "Ana", fullName |-> "", role |-> "professor"]

\* a second entry of the remote list for the account r1, which carries the
\* account's identifier as userId
RemoteAnaProfile ==
    [id |-> "", userId |-> "r1", email |-> "ana.lima@escola.com",
     name |-> "", fullName |-> "Ana Lima", role |-> ""]

RemoteUserLists ==
    { <<>>, <<RemoteAna>>, <<RemoteAnon, RemoteProf>>,
      <<RemoteAna, RemoteAnaProfile>> }

\* how many elements of the list get their id from generateId
RECURSIVE CountNoId(_)
CountNoId(list) ==
    IF list = <<>> THEN 0
    ELSE (IF Or(Head(list).id, Head(list).userId) = "" THEN 1 ELSE 0)
         + CountNoId(Tail(list))

\* users.map(u => ({id: u.id || u.userId || generateId(), ...}))
RECURSIVE normalizeUsers(_, _)
normalizeUsers(list, n) ==
    IF list = <<>> THEN <<>>
    ELSE LET u == Head(list)
             fresh == Or(u.id, u.userId) = ""
         IN  << [id |-> IF fresh THEN generateId(n + 1) ELSE Or(u.id, u.userId),
                 email |-> u.email,
                 name |-> Or(u.name, u.fullName),
                 role |-> Or(u.role, "professor")] >>
             \o normalizeUsers(Tail(list), IF fresh THEN n + 1 ELSE n)

-----------------------------------------------------------------------------
(* storage.ts: authStorage *)

validCredentials ==
    { [email |-> CoordEmail, password |-> "coord123"],
      [email |-> ProfEmail, password |-> "prof123"] }

isValid(email, password) ==
    \E cred \in validCredentials :
        cred.email = email /\ cred.password = password

\* authStorage.signIn: the user returned (NoUser for null)
authStorage_signIn(us, email, password) ==
    IF ~isValid(email, password) THEN NoUser
    ELSE Find(us, {i \in 1..Len(us) : us[i].email = email}, NoUser)

-----------------------------------------------------------------------------
(* storage.ts: adaptationStorage, reportStorage, studentStorage *)

NoAdaptation ==
    [id |-> "", studentId |-> "", description |-> "", justification |-> "",
     date |-> "", createdAt |-> "", createdBy |-> "", updatedAt |-> ""]

NoReport ==
    [id |-> "", studentId |-> "", teacherId |-> "", teacherName |-> "",
     subject |-> "", date |-> "", result |-> "", description |-> "",
     createdAt |-> "", updatedAt |-> ""]

NoStudent ==
    [id |-> "", name |-> "", course |-> "", class |-> "", birthDate |-> "",
     registrationNumber |-> "", guardianName |-> "", guardianContact |-> "",
     createdAt |-> "", createdBy |-> "", updatedAt |-> "", updatedBy |-> ""]

\* adaptationStorage.create: the new record; data.id is not read
newAdaptation(data, cur, n) ==
    [id |-> generateId(n + 1),
     studentId |-> data.studentId,
     description |-> data.description,
     justification |-> data.justification,
     date |-> Or(data.date, Today),
     createdAt |-> Now,
     createdBy |-> cur.id,
     updatedAt |-> ""]

\* reportStorage.create: the new record; data.id is not read
newReport(data, cur, n) ==
    [id |-> generateId(n + 1),
     studentId |-> data.studentId,
     teacherId |-> cur.id,
     teacherName |-> cur.name,
     subject |-> data.subject,
     date |-> Or(data.date, Today),
     result |-> Or(data.result, "neutro"),
     description |-> data.description,
     createdAt |-> Now,
     updatedAt |-> ""]

\* applyUpdates with the spread reversed, {...updates, ...record}: the stored
\* values win over the submitted ones
applyUpdatesStale(rec, updates, id) ==
    [f \in DOMAIN rec |->
        IF f = "id" THEN id
        ELSE IF f = "updatedAt" THEN Now
        ELSE rec[f]]

\* {...record, ...updates, id, updatedAt}: updates is a record whose fields
\* are fields of the stored record
applyUpdates(rec, updates, id) ==
    [f \in DOMAIN rec |->
        IF f = "id" THEN id
        ELSE IF f = "updatedAt" THEN Now
        ELSE IF f \in DOMAIN updates THEN updates[f]
        ELSE rec[f]]

\* storageUpdate that pushes the updates as a record when findIndex gives -1
storageUpdateUpsert(coll, id, updates) ==
    LET index == FindIndex({i \in 1..Len(coll) : coll[i].id = id})
    IN  IF index = 0
        THEN Append(coll, [f \in DOMAIN updates \cup {"id"} |->
                              IF f = "id" THEN id ELSE updates[f]])
        ELSE [coll EXCEPT ![index] = applyUpdates(coll[index], updates, id)]

\* adaptationStorage.update / reportStorage.update: the collection written
\* back; unchanged when findIndex gives -1
storageUpdate(coll, id, updates) ==
    LET index == FindIndex({i \in 1..Len(coll) : coll[i].id = id})
    IN  IF index = 0 THEN coll
        ELSE [coll EXCEPT ![index] = applyUpdates(coll[index], updates, id)]

\* what update returns: the updated record, or none
storageUpdated(coll, id, updates, none) ==
    LET written == storageUpdate(coll, id, updates)
    IN  Find(written, {i \in 1..Len(written) : written[i].id = id}, none)

\* storageDelete with the filter inverted: only the record to delete is kept
storageDeleteInverted(coll, id) ==
    LET Keep(r) == r.id = id IN SelectSeq(coll, Keep)

\* adaptationStorage.delete / reportStorage.delete / studentStorage.delete:
\* coll.filter(r => r.id !== id)
storageDelete(coll, id) ==
    LET Keep(r) == r.id # id IN SelectSeq(coll, Keep)

\* what delete returns: false when filtered.length === coll.length
storageDeleted(coll, id) == Len(storageDelete(coll, id)) # Len(coll)

\* deleteByStudent: coll.filter(r => r.studentId !== studentId)
deleteByStudent(coll, studentId) ==
    LET Keep(r) == r.studentId # studentId IN SelectSeq(coll, Keep)

-----------------------------------------------------------------------------
(* The handler in flight *)

NoArg == [email |-> "", password |-> ""]

\* no handler has run yet
NoOp ==
    [name |-> "none", pc |-> "done", arg |-> NoArg, reqs |-> <<>>,
     resps |-> <<>>, stages |-> <<>>, remote |-> "none", outcome |-> "ok",
     ret |-> NoUser]

\* a handler that runs to its end without awaiting
Sync(name, arg, outcome, ret) ==
    [name |-> name, pc |-> "done", arg |-> arg, reqs |-> <<>>,
     resps |-> <<>>, stages |-> <<>>, remote |-> "none",
     outcome |-> outcome, ret |-> ret]

\* a handler that has issued its first request and awaits the response
Started(name, pc, arg, req, stages) ==
    [name |-> name, pc |-> pc, arg |-> arg, reqs |-> <<req>>,
     resps |-> <<>>, stages |-> stages, remote |-> "pending",
     outcome |-> "pending", ret |-> NoUser]

Req(method, path) == [method |-> method, path |-> path]

\* the response to the pending request has arrived (op.remote is the state of
\* the api.* call of a dual-write handler: pending, ok, failed)
Answered(o, resp) == [o EXCEPT !.resps = Append(o.resps, resp)]

\* the next request is issued
Asked(o, pc, req) == [o EXCEPT !.pc = pc, !.reqs = Append(o.reqs, req)]

\* the handler returns (outcome "ok") or throws / reports (an error message)
Finished(o, outcome, ret) ==
    [o EXCEPT !.pc = "done", !.outcome = outcome, !.ret = ret]

\* the api.* call of the handler has settled: "ok" resolved, "failed" rejected
Settled(o, remote) == [o EXCEPT !.remote = remote]

Idle == op.pc = "done"

\* statuses of a response that is not ok; NoStatus is a rejected fetch
FailStatuses == {StatusNotFound, StatusServerError, StatusTimeout, NoStatus}

-----------------------------------------------------------------------------
(* The state of the StudentReport component *)

\* useState<StudentReportType | null>(null)
NoData ==
    [isNull |-> TRUE, student |-> NoStudent, adaptations |-> <<>>,
     reports |-> <<>>]

\* no loadReport call is in flight and none has run in the open report.
\* pc: "first" while GET /reports/{studentId} is awaited, "follow" while
\* follow-up requests are, "merge" when api.getStudentReport has settled,
\* "done" after setData; pending are the follow-up requests in flight, todo
\* those a sequential branch issues later; failed are the requests that
\* were rejected; student, adaptations and reports are the pieces so far;
\* prepends counts the items put in front of the lists since the last fetch;
\* prev is the path, the branch and the failed requests of the call before;
\* arrived are the follow-up requests in the order they settled
NoLoad ==
    [pc |-> "done", path |-> "none", branch |-> "none", pending |-> {},
     todo |-> <<>>, failed |-> {}, arrived |-> <<>>, student |-> NoStudent,
     adaptations |-> <<>>, reports |-> <<>>, prepends |-> 0,
     prev |-> <<"none", "none", {}>>]

\* the StudentReport component is not rendered: its state is gone
Unmounted ==
    /\ selectedStudent' = ""
    /\ dataShown' = NoData
    /\ error' = ""
    /\ load' = NoLoad

-----------------------------------------------------------------------------
(* AuthProvider (the sign-in chain): mount, checkSession, signOut *)

\* a text under the localStorage key user that JSON.parse rejects
Unparsable == [NoUser EXCEPT !.role = "<unparsable>"]

\* checkSession reading the user under a key nothing is stored under: the
\* session is never restored
checkSessionWrongKey(tok, stored) ==
    [token |-> tok, storedUser |-> stored, user |-> NoUser]

\* checkSession: the two localStorage keys and the React user after it.
\* `if (token && storedUser) setUser(JSON.parse(storedUser))`; the catch of
\* a JSON.parse that throws removes both keys and sets the user to null
checkSession(tok, stored) ==
    IF tok # "" /\ stored # NoUser
    THEN IF stored = Unparsable
         THEN [token |-> "", storedUser |-> NoUser, user |-> NoUser]
         ELSE [token |-> tok, storedUser |-> stored, user |-> stored]
    ELSE [token |-> tok, storedUser |-> stored, user |-> NoUser]

\* initializeDefaultUsers without the test `users.length === 0`
initializeDefaultUsersAlways(us, n) ==
    [users |-> defaultUsers(n), nextId |-> n + 2]

\* initializeDefaultUsers(): the users collection and the id counter after it
initializeDefaultUsers(us, n) ==
    IF Len(us) = 0
    THEN [users |-> defaultUsers(n), nextId |-> n + 2]
    ELSE [users |-> us, nextId |-> n]

\* initializeDefaultData(): the three collections and the id counter after it
initializeDefaultData(us, sts, ads, rps, n) ==
    IF Len(sts) > 0
    THEN [students |-> sts, adaptations |-> ads, reports |-> rps, nextId |-> n]
    ELSE LET coordinator ==
                 Find(us, {i \in 1..Len(us) : IsCoordinator(us[i])}, NoUser)
             professor ==
                 Find(us, {i \in 1..Len(us) : IsProfessor(us[i])}, NoUser)
             sample == sampleStudents(n, coordinator)
         IN  [students |-> sample,
              adaptations |-> Append(ads,
                  sampleAdaptation(n + 2, sample[1].id, coordinator)),
              reports |-> Append(rps,
                  sampleReport(n + 3, sample[1].id, professor)),
              nextId |-> n + 4]

\* the page is loaded: useEffect runs initializeDefaultUsers(),
\* initializeDefaultData() and checkSession(); a handler in flight is gone
Mount ==
    /\ Idle
    /\ LET u == initializeDefaultUsers(users, nextId)
           d == initializeDefaultData(u.users, students, adaptations, reports,
                                      u.nextId)
       IN  /\ d.nextId <= MaxIds
           /\ users' = u.users
           /\ students' = d.students
           /\ adaptations' = d.adaptations
           /\ reports' = d.reports
           /\ nextId' = d.nextId
    /\ LET c == checkSession(token, storedUser)
       IN  /\ token' = c.token
           /\ storedUser' = c.storedUser
           /\ user' = c.user
    /\ op' = Sync("mount", NoArg, "ok", user')
    /\ Unmounted
    /\ UNCHANGED currentUser
    /\ UNCHANGED call

\* the page is loaded with the remote-only AuthProvider: checkSession() only
ApiMount ==
    /\ Idle
    /\ LET c == checkSession(token, storedUser)
       IN  /\ token' = c.token
           /\ storedUser' = c.storedUser
           /\ user' = c.user
    /\ op' = Sync("apiMount", NoArg, "ok", user')
    /\ Unmounted
    /\ UNCHANGED <<store, nextId>>
    /\ UNCHANGED call

\* the keys of the persisted session that are present, in the order signOut
\* removes them
persistedKeys(tok, stored) ==
    (IF tok # "" THEN <<"token">> ELSE <<>>)
    \o (IF stored # NoUser THEN <<"user">> ELSE <<>>)

\* signOut() that forgets localStorage.removeItem('user')
signOutKeepsUser ==
    /\ Idle
    /\ token' = ""
    /\ user' = NoUser
    /\ op' = [Sync("signOut", NoArg, "ok", NoUser)
                 EXCEPT !.stages = persistedKeys(token, storedUser)]
    /\ Unmounted
    /\ UNCHANGED <<store, storedUser, nextId>>
    /\ UNCHANGED call

\* signOut(): removeItem('token'), removeItem('user'), setUser(null);
\* op.stages keeps the keys it found
signOut ==
    /\ Idle
    /\ token' = ""
    /\ storedUser' = NoUser
    /\ user' = NoUser
    /\ op' = [Sync("signOut", NoArg, "ok", NoUser)
                 EXCEPT !.stages = persistedKeys(token, storedUser)]
    /\ Unmounted
    /\ UNCHANGED <<store, nextId>>
    /\ UNCHANGED call

\* What checkSession may find under the keys token and user: localStorage is
\* shared by the origin and can be edited outside the application, so one
\* of the keys may be gone, or user may hold text that is not JSON
localStorageEdited ==
    /\ Idle
    /\ \/ /\ token # ""
          /\ token' = ""
          /\ UNCHANGED storedUser
       \/ /\ storedUser # NoUser
          /\ storedUser' \in {NoUser, Unparsable} \ {storedUser}
          /\ UNCHANGED token
    /\ op' = Sync("localStorageEdited", NoArg, "ok", NoUser)
    /\ UNCHANGED <<store, user, nextId, studentReport>>
    /\ UNCHANGED call

\* importUsersFromApi(apiUrl): the response of GET /users decides
importUsersFromApi ==
    /\ Idle
    /\ \E status \in {StatusOk, StatusServerError, NoStatus},
          list \in RemoteUserLists :
        LET arg == NoArg
        IN  IF status # StatusOk \/ Len(list) = 0
            THEN /\ UNCHANGED <<users, nextId>>
                 /\ op' = Sync("importUsersFromApi", arg, "skipped", NoUser)
            ELSE /\ nextId + CountNoId(list) <= MaxIds
                 /\ users' = normalizeUsers(list, nextId)
                 /\ nextId' = nextId + CountNoId(list)
                 /\ op' = Sync("importUsersFromApi", arg, "ok", NoUser)
    /\ UNCHANGED <<students, adaptations, reports, currentUser, session, studentReport>>
    /\ UNCHANGED call

-----------------------------------------------------------------------------
(* AuthProvider.signIn, the sign-in chain: remote session, remote lookup by *)
(* e-mail, local credential table                                          *)

AuthError == "Usuário não encontrado. Verifique o e-mail ou senha."

\* profiles the remote /me endpoint may return
RemoteProfileAna ==
    [id |-> "r1", email |-> "ana@escola.com", name |-> "Ana Lima",
     role |-> "coordenador"]
RemoteProfileProf ==
    [id |-> "r2", email |-> ProfEmail, name |-> "João S.", role |-> "professor"]

\* supabase.auth.signInWithPassword: {data, error}, or a rejection
SessionResponses ==
    { [status |-> StatusOk, accessToken |-> "tok-1"],
      [status |-> StatusOk, accessToken |-> ""],
      [status |-> NoStatus, accessToken |-> ""] }

\* GET /me: body {user: profile}, body profile, a body res.json() rejects,
\* a response that is not ok, a rejected fetch
MeResponses ==
    { [status |-> StatusOk, malformed |-> FALSE, user |-> RemoteProfileAna,
       self |-> NoUser],
      [status |-> StatusOk, malformed |-> FALSE, user |-> NoUser,
       self |-> RemoteProfileProf],
      [status |-> StatusOk, malformed |-> TRUE, user |-> NoUser,
       self |-> NoUser],
      [status |-> StatusServerError, malformed |-> FALSE, user |-> NoUser,
       self |-> NoUser],
      [status |-> NoStatus, malformed |-> FALSE, user |-> NoUser,
       self |-> NoUser] }

\* GET /users?email=: a bare array, {value: [...]}, {users: [...]}, another
\* object, a body res.json() rejects, a response that is not ok, a rejected
\* fetch
LookupResponses ==
    { [status |-> StatusOk, malformed |-> FALSE, shape |-> "array",
       list |-> l] : l \in RemoteUserLists }
    \cup
    { [status |-> StatusOk, malformed |-> FALSE, shape |-> "value",
       list |-> <<RemoteAna>>],
      [status |-> StatusOk, malformed |-> FALSE, shape |-> "users",
       list |-> <<RemoteProf>>],
      [status |-> StatusOk, malformed |-> FALSE, shape |-> "other",
       list |-> <<>>],
      [status |-> StatusOk, malformed |-> TRUE, shape |-> "other",
       list |-> <<>>],
      [status |-> StatusServerError, malformed |-> FALSE, shape |-> "other",
       list |-> <<>>],
      [status |-> NoStatus, malformed |-> FALSE, shape |-> "other",
       list |-> <<>>] }

\* !error && data?.session?.access_token
sessionGranted(r) == r.status = StatusOk /\ r.accessToken # ""

\* meOk with the test of res.ok inverted
meOkInverted(r) == r.status # StatusOk /\ ~r.malformed

\* res.ok, and res.json() resolves
meOk(r) == r.status = StatusOk /\ ~r.malformed

\* body.user || body
meProfile(r) == IF r.user # NoUser THEN r.user ELSE r.self

\* Array.isArray(data) ? data : data?.value || data?.users || []
lookupList(r) == IF r.shape \in {"array", "value", "users"} THEN r.list ELSE <<>>

\* list.find(u => u.email && u.email.toLowerCase() === email.toLowerCase())
lookupFound(r, email) ==
    LET list == lookupList(r)
        Match(u) == u.email # "" /\ toLowerCase(u.email) = toLowerCase(email)
    IN  IF r.status = StatusOk /\ ~r.malformed
        THEN Find(list, {i \in 1..Len(list) : Match(list[i])}, NoUser)
        ELSE NoUser

\* the profile stored for a user found by e-mail
lookupProfile(found) ==
    [id |-> Or(found.id, Or(found.userId, found.email)),
     email |-> found.email,
     name |-> Or(found.name, found.fullName),
     role |-> Or(found.role, "professor")]

\* signIn(email, password) up to its first await: initializeDefaultUsers(),
\* then supabase.auth.signInWithPassword
signIn ==
    /\ Idle
    /\ user = NoUser
    /\ \E cred \in Credentials :
        LET u == initializeDefaultUsers(users, nextId)
        IN  /\ u.nextId <= MaxIds
            /\ users' = u.users
            /\ nextId' = u.nextId
            /\ op' = Started("signIn", "session", cred,
                             Req("POST", "/auth"), <<"session">>)
    /\ UNCHANGED <<students, adaptations, reports, currentUser, session, studentReport>>
    /\ UNCHANGED call

\* the request of the lookup stage
lookupReq(email) == Req("GET", "/users?email=" \o email)

\* signInWithPassword has answered: fetch /me with the token, or fall
\* through to the lookup
signInSession ==
    /\ op.name = "signIn" /\ op.pc = "session"
    /\ \E r \in SessionResponses :
        LET o == Answered(op, r)
        IN  IF sessionGranted(r)
            THEN op' = Asked(o, "me", Req("GET", "/me"))
            ELSE op' = [Asked(o, "lookup", lookupReq(op.arg.email))
                           EXCEPT !.stages = Append(o.stages, "lookup")]
    /\ UNCHANGED <<store, session, nextId, studentReport>>
    /\ UNCHANGED call

\* /me has answered: store the session and return, or fall through
signInMe ==
    /\ op.name = "signIn" /\ op.pc = "me"
    /\ \E r \in MeResponses :
        LET o == Answered(op, r)
        IN  IF meOk(r)
            THEN /\ token' = o.resps[1].accessToken
                 /\ storedUser' = meProfile(r)
                 /\ user' = meProfile(r)
                 /\ op' = Finished(o, "ok", meProfile(r))
            ELSE /\ op' = [Asked(o, "lookup", lookupReq(op.arg.email))
                              EXCEPT !.stages = Append(o.stages, "lookup")]
                 /\ UNCHANGED session
    /\ UNCHANGED <<store, nextId, studentReport>>
    /\ UNCHANGED call

\* signInLookup that signs out before it throws: a call that fails removes
\* the keys of the session and the current-user record
signInLookupClears ==
    /\ op.name = "signIn" /\ op.pc = "lookup"
    /\ \E r \in LookupResponses :
        LET o == Answered(op, r)
            found == lookupFound(r, op.arg.email)
            local == authStorage_signIn(users, op.arg.email, op.arg.password)
            o3 == [o EXCEPT !.stages = Append(o.stages, "local")]
        IN  IF found # NoUser
            THEN /\ token' = "mock-api-" \o found.email
                 /\ storedUser' = lookupProfile(found)
                 /\ user' = lookupProfile(found)
                 /\ op' = Finished(o, "ok", lookupProfile(found))
                 /\ UNCHANGED currentUser
            ELSE IF local # NoUser
            THEN /\ currentUser' = local
                 /\ token' = "mock-token-" \o local.id
                 /\ storedUser' = local
                 /\ user' = local
                 /\ op' = Finished(o3, "ok", local)
            ELSE /\ op' = Finished(o3, AuthError, NoUser)
                 /\ currentUser' = NoUser
                 /\ token' = ""
                 /\ storedUser' = NoUser
                 /\ user' = NoUser
    /\ UNCHANGED <<users, students, adaptations, reports, nextId, studentReport>>
    /\ UNCHANGED call

\* /users?email= has answered: store the session of the user found, or run
\* the local stage: authStorage.signIn, then the mock token or the error
signInLookup ==
    /\ op.name = "signIn" /\ op.pc = "lookup"
    /\ \E r \in LookupResponses :
        LET o == Answered(op, r)
            found == lookupFound(r, op.arg.email)
            local == authStorage_signIn(users, op.arg.email, op.arg.password)
            o3 == [o EXCEPT !.stages = Append(o.stages, "local")]
        IN  IF found # NoUser
            THEN /\ token' = "mock-api-" \o found.email
                 /\ storedUser' = lookupProfile(found)
                 /\ user' = lookupProfile(found)
                 /\ op' = Finished(o, "ok", lookupProfile(found))
                 /\ UNCHANGED currentUser
            ELSE IF local # NoUser
            THEN /\ currentUser' = local
                 /\ token' = "mock-token-" \o local.id
                 /\ storedUser' = local
                 /\ user' = local
                 /\ op' = Finished(o3, "ok", local)
            ELSE /\ op' = Finished(o3, AuthError, NoUser)
                 /\ UNCHANGED <<currentUser, session>>
    /\ UNCHANGED <<users, students, adaptations, reports, nextId, studentReport>>
    /\ UNCHANGED call

-----------------------------------------------------------------------------
(* AuthProvider.signIn, the remote-only provider (contexts/AuthContext.tsx) *)

ApiConnectError == "Erro ao conectar com a API"
ApiNotFoundError == "Usuário não encontrado. Verifique o e-mail digitado."
\* the message of the TypeError of a rejected fetch, of the SyntaxError of
\* response.json()
FetchError == "Failed to fetch"
JsonError == "Unexpected token"

\* signIn(email, password) up to its await: fetch /users?email=
apiSignIn ==
    /\ Idle
    /\ user = NoUser
    /\ \E cred \in Credentials :
        op' = Started("apiSignIn", "lookup", cred,
                      lookupReq(cred.email), <<"lookup">>)
    /\ UNCHANGED <<store, session, nextId, studentReport>>
    /\ UNCHANGED call

\* Array.isArray(data) && data.length > 0 ? data[0] : null, in the 4 fields
\* of User the application reads
apiFirstUser(r) ==
    IF r.shape = "array" /\ Len(r.list) > 0
    THEN [id |-> r.list[1].id, email |-> r.list[1].email,
          name |-> r.list[1].name, role |-> r.list[1].role]
    ELSE NoUser

\* the lookup has answered: throw, or store the session of data[0]
apiSignInLookup ==
    /\ op.name = "apiSignIn" /\ op.pc = "lookup"
    /\ \E r \in LookupResponses :
        LET o == Answered(op, r)
            first == apiFirstUser(r)
        IN  IF r.status = NoStatus
            THEN op' = Finished(o, FetchError, NoUser) /\ UNCHANGED session
            ELSE IF r.status # StatusOk
            THEN op' = Finished(o, ApiConnectError, NoUser) /\ UNCHANGED session
            ELSE IF r.malformed
            THEN op' = Finished(o, JsonError, NoUser) /\ UNCHANGED session
            ELSE IF first = NoUser
            THEN op' = Finished(o, ApiNotFoundError, NoUser) /\ UNCHANGED session
            ELSE /\ token' = "mock-token-" \o first.id
                 /\ storedUser' = first
                 /\ user' = first
                 /\ op' = Finished(o, "ok", first)
    /\ UNCHANGED <<store, nextId, studentReport>>
    /\ UNCHANGED call

-----------------------------------------------------------------------------
(* api.ts: the remote write calls *)

\* what the remote may answer to a POST: an object with an id, an object
\* without one, or a failure
RemoteId == "r7"
CreateResponses ==
    { [status |-> StatusOk, id |-> RemoteId], [status |-> StatusOk, id |-> ""] }
    \cup { [status |-> st, id |-> ""] : st \in FailStatuses }

\* what the remote may answer to a PUT or a DELETE
WriteResponses ==
    { [status |-> st, id |-> ""] : st \in {StatusOk} \cup FailStatuses }

\* retryNested without the status test: every failure is retried
retryNestedAlways(r) == r.status # StatusOk

\* catch (err) { if (err?.status === 404) retry on the nested path }
retryNested(r) == r.status = StatusNotFound

flatPath(entity, id) == "/" \o entity \o "/" \o id
nestedPath(entity, studentId, id) ==
    "/" \o entity \o "/" \o studentId \o "/" \o id

\* api.updateAdaptation, api.updateReport, api.deleteAdaptation,
\* api.deleteReport after the response r to the flat-path request: the nested
\* request is issued, or the call settles
apiAfterFlat(o, r, method, entity) ==
    IF retryNested(r)
    THEN Asked(Answered(o, r), "nested",
               Req(method, nestedPath(entity, o.arg.studentId, o.arg.id)))
    ELSE Settled(Answered(o, r),
                 IF r.status = StatusOk THEN "ok" ELSE "failed")

\* the same calls after the response r to the nested-path request
apiAfterNested(o, r) ==
    Settled(Answered(o, r), IF r.status = StatusOk THEN "ok" ELSE "failed")

-----------------------------------------------------------------------------
(* StudentReport: api.getStudentReport and loadReport *)

\* setLoading(true) ... finally setLoading(false)
loading == load.pc # "done"

\* adaptationStorage.getByStudent, reportStorage.getByStudent
getByStudent(coll, sid) ==
    LET Keep(r) == r.studentId = sid IN SelectSeq(coll, Keep)

\* the copy the remote holds of a record: it lacks the last local edit
remoteCopy(rec) == [rec EXCEPT !.description = "(remoto) " \o @]

\* records the remote holds and the local store does not
remoteStudent(sid) ==
    [NoStudent EXCEPT !.id = sid, !.name = "Aluno remoto",
                      !.course = "Ensino Médio"]
remoteOnlyAdaptation(sid) ==
    [NoAdaptation EXCEPT !.id = "ra1", !.studentId = sid,
                         !.justification = "Laudo remoto"]
remoteOnlyReport(sid, teacherId) ==
    [NoReport EXCEPT !.id = "rr1", !.studentId = sid,
                     !.teacherId = teacherId, !.result = "neutro"]
\* a remote adaptation that has no id
remoteAnonymousAdaptation(sid) ==
    [NoAdaptation EXCEPT !.studentId = sid, !.description = "Sem id"]

\* what the remote lists for the student: copies of the local records, and
\* records of its own
remoteAdaptations(sid) ==
    [i \in 1..Len(getByStudent(adaptations, sid)) |->
        remoteCopy(getByStudent(adaptations, sid)[i])]
    \o <<remoteOnlyAdaptation(sid)>>
remoteReports(sid) ==
    [i \in 1..Len(getByStudent(reports, sid)) |->
        remoteCopy(getByStudent(reports, sid)[i])]
    \o <<remoteOnlyReport(sid, user.id)>>

\* the create handler that has just finished got an id from the remote for
\* a record of the student: the remote has stored the payload under that id
Posted(sid) ==
    /\ op.pc = "done"
    /\ op.name \in {"AdaptationForm.create", "ReportForm.create"}
    /\ op.remote = "ok" /\ op.resps[1].id # ""
    /\ op.arg.studentId = sid

\* what the remote lists for the student when it holds what was posted:
\* {...formData, studentId, date} under the id it answered
postedAdaptations(sid) ==
    IF Posted(sid) /\ op.name = "AdaptationForm.create"
    THEN <<[NoAdaptation EXCEPT
               !.id = op.resps[1].id, !.studentId = sid,
               !.description = op.arg.form.description,
               !.justification = op.arg.form.justification,
               !.date = toISOString(op.arg.form.date)]>>
    ELSE <<>>
postedReports(sid) ==
    IF Posted(sid) /\ op.name = "ReportForm.create"
    THEN <<[NoReport EXCEPT
               !.id = op.resps[1].id, !.studentId = sid,
               !.subject = op.arg.form.subject,
               !.result = op.arg.form.result,
               !.description = op.arg.form.description,
               !.date = toISOString(op.arg.form.date)]>>
    ELSE <<>>

\* a response to a GET of the report's data. shape is "object" for the
\* aggregate {student, adaptations, reports} and "array" for an array, of
\* which one of students, adaptations, reports holds the elements
ReadResponse(status, shape, student, sts, ads, rps) ==
    [status |-> status, shape |-> shape, student |-> student,
     students |-> sts, adaptations |-> ads, reports |-> rps]

ReadFailures ==
    { ReadResponse(st, "none", NoStudent, <<>>, <<>>, <<>>) :
        st \in FailStatuses }

\* what GET /reports/{studentId} may answer
FirstResponses(sid) ==
    ReadFailures \cup
    { ReadResponse(StatusOk, "object", remoteStudent(sid), <<>>,
                   remoteAdaptations(sid), remoteReports(sid)),
      ReadResponse(StatusOk, "array", NoStudent, <<remoteStudent(sid)>>,
                   <<>>, <<>>),
      ReadResponse(StatusOk, "array", NoStudent, <<>>, <<>>,
                   remoteReports(sid)),
      ReadResponse(StatusOk, "array", NoStudent, <<>>,
                   remoteAdaptations(sid)
                       \o <<remoteAnonymousAdaptation(sid),
                            remoteAnonymousAdaptation(sid)>>, <<>>),
      ReadResponse(StatusOk, "array", NoStudent, <<>>, <<>>, <<>>) }
    \cup (IF Posted(sid)
          THEN { ReadResponse(StatusOk, "object", remoteStudent(sid), <<>>,
                              postedAdaptations(sid), postedReports(sid)) }
          ELSE {})

\* what the follow-up GET of an endpoint may answer
FollowUpResponses(endpoint, sid) ==
    ReadFailures \cup
    { ReadResponse(StatusOk, "array", NoStudent,
        IF endpoint = "students" THEN <<remoteStudent(sid)>> ELSE <<>>,
        IF endpoint = "adaptations" THEN remoteAdaptations(sid) ELSE <<>>,
        IF endpoint = "reports" THEN remoteReports(sid) ELSE <<>>) }

\* res[0] of an array response
first(res) == Head(res.students \o res.adaptations \o res.reports)

\* first.f, a field the element may lack, taken as a condition
Has(rec, f) == f \in DOMAIN rec /\ rec[f] # ""

\* the branch getStudentReport takes on the response to its first request
branchOf(res) ==
    IF res.status = StatusNotFound THEN "parallel"
    ELSE IF res.status # StatusOk THEN "thrown"
    ELSE IF res.shape = "object" THEN "aggregate"
    ELSE IF Len(res.students \o res.adaptations \o res.reports) = 0
         THEN "parallel"
    ELSE IF \/ Has(first(res), "registrationNumber")
            \/ Has(first(res), "birthDate")
            \/ Has(first(res), "course") THEN "students"
    ELSE IF \/ Has(first(res), "subject")
            \/ Has(first(res), "teacherId")
            \/ Has(first(res), "result") THEN "reports"
    ELSE IF \/ Has(first(res), "justification")
            \/ Has(first(res), "description") THEN "adaptations"
    ELSE "parallel"

\* students.find(s => String(s.id) === String(studentId)) || null
findStudent(sts, sid) ==
    Find(sts, {i \in 1..Len(sts) : sts[i].id = sid}, NoStudent)

\* the key of the Map the merge is done in:
\* String(a.id || a._localId || JSON.stringify(a)); no record has a _localId,
\* and the JSON text of a record stands for itself
mergeKey(a) ==
    IF a.id # "" THEN [f \in DOMAIN a |-> IF f = "id" THEN a.id ELSE ""]
    ELSE a

\* recs.forEach(a => map.set(mergeKey(a), a)) on the Map whose values, in
\* the order of insertion of their keys, are m
RECURSIVE mapSet(_, _)
mapSet(m, recs) ==
    IF recs = <<>> THEN m
    ELSE LET rec == Head(recs)
             hits == {i \in 1..Len(m) : mergeKey(m[i]) = mergeKey(rec)}
         IN  mapSet(IF hits = {} THEN Append(m, rec)
                    ELSE [m EXCEPT ![FindIndex(hits)] = rec],
                    Tail(recs))

\* merged with the two forEach swapped: the remote record overwrites the
\* local one
mergedRemoteWins(remote, local) == mapSet(mapSet(<<>>, local), remote)

\* Array.from(map.values()) after the remote records, then the local ones,
\* have been set
merged(remote, local) == mapSet(mapSet(<<>>, remote), local)

\* the first request of loadReport is issued: setLoading(true), setError('')
StartLoad(l) ==
    [NoLoad EXCEPT !.pc = "first", !.path = "merge",
                   !.prev = <<l.path, l.branch, l.failed>>]

\* api.getStudentReport after the response to GET /reports/{studentId}
getStudentReport(l, res, sid) ==
    LET b == branchOf(res)
        m == [l EXCEPT !.branch = b]
    IN  CASE b = "thrown" ->
               [m EXCEPT !.pc = "merge", !.failed = {"first"}]
          [] b = "aggregate" ->
               [m EXCEPT !.pc = "merge", !.student = res.student,
                         !.adaptations = res.adaptations,
                         !.reports = res.reports]
          [] b = "students" ->
               [m EXCEPT !.pc = "follow",
                         !.student = findStudent(res.students, sid),
                         !.pending = {"adaptations", "reports"}]
          [] b = "reports" ->
               [m EXCEPT !.pc = "follow", !.reports = res.reports,
                         !.pending = {"students"}, !.todo = <<"adaptations">>]
          [] b = "adaptations" ->
               [m EXCEPT !.pc = "follow", !.adaptations = res.adaptations,
                         !.pending = {"students"}, !.todo = <<"reports">>]
          [] b = "parallel" ->
               [m EXCEPT !.pc = "follow",
                         !.failed = IF res.status = StatusOk THEN {}
                                    ELSE {"first"},
                         !.pending = {"students", "adaptations", "reports"}]

\* a follow-up request without its .catch: the rejection reaches the catch of
\* loadReport, which takes the empty report
uncaught(l, endpoint) ==
    [l EXCEPT !.failed = @ \cup {endpoint}, !.pending = {}, !.todo = <<>>,
              !.arrived = Append(@, endpoint), !.student = NoStudent, !.adaptations = <<>>, !.reports = <<>>]

\* .catch(() => []) of a follow-up request: the piece is the empty array
caught(l, endpoint) ==
    [l EXCEPT !.failed = @ \cup {endpoint}, !.pending = @ \ {endpoint},
              !.arrived = Append(@, endpoint)]

\* fetched that keeps a piece only when the requests answer in the order
\* students, adaptations, reports: a piece that overtakes another is lost
fetchedInOrder(l, endpoint, res, sid) ==
    LET m == [l EXCEPT !.pending = @ \ {endpoint},
                       !.arrived = Append(@, endpoint)]
    IN  CASE endpoint = "students" ->
               [m EXCEPT !.student = findStudent(res.students, sid)]
          [] endpoint = "adaptations" ->
               IF "students" \in l.pending THEN m
               ELSE [m EXCEPT !.adaptations = res.adaptations]
          [] endpoint = "reports" ->
               IF l.pending # {"reports"} THEN m
               ELSE [m EXCEPT !.reports = res.reports]

\* the response of a follow-up request is stored as its piece
fetched(l, endpoint, res, sid) ==
    LET m == [l EXCEPT !.pending = @ \ {endpoint},
                       !.arrived = Append(@, endpoint)]
    IN  CASE endpoint = "students" ->
               [m EXCEPT !.student = findStudent(res.students, sid)]
          [] endpoint = "adaptations" ->
               [m EXCEPT !.adaptations = res.adaptations]
          [] endpoint = "reports" ->
               [m EXCEPT !.reports = res.reports]

\* after a follow-up has settled: the next request of a sequential branch is
\* issued, or api.getStudentReport returns
continued(l) ==
    IF l.pending # {} THEN l
    ELSE IF l.todo # <<>>
         THEN [l EXCEPT !.pending = {Head(l.todo)}, !.todo = Tail(l.todo)]
    ELSE [l EXCEPT !.pc = "merge"]

\* loadReport(createdItem), the callback of the forms and of the delete
\* handlers: a created item is put in front of the list shown; without one
\* the report is fetched again. none stands for undefined
loadReport(createdItem, none, piece) ==
    IF createdItem # none /\ ~dataShown.isNull
    THEN /\ dataShown' = [dataShown EXCEPT ![piece] = <<createdItem>> \o @]
         /\ load' = [NoLoad EXCEPT !.path = "optimistic",
                                   !.prepends = load.prepends + 1]
         /\ UNCHANGED <<selectedStudent, error>>
    ELSE /\ load' = StartLoad(load)
         /\ error' = ""
         /\ UNCHANGED <<selectedStudent, dataShown>>

\* the students the list of the dashboard shows
ListedStudents == {students[i].id : i \in 1..Len(students)}

\* a student of the list is selected: StudentReport is rendered and its
\* effect calls loadReport()
StudentReport ==
    /\ Idle
    /\ user # NoUser
    /\ selectedStudent = ""
    /\ \E sid \in ListedStudents : selectedStudent' = sid
    /\ dataShown' = NoData
    /\ error' = ""
    /\ load' = StartLoad(NoLoad)
    /\ UNCHANGED <<store, session, nextId, op>>
    /\ UNCHANGED call

\* GET /reports/{studentId} has answered
loadReportFirst ==
    /\ load.pc = "first"
    /\ \E res \in FirstResponses(selectedStudent) :
        load' = getStudentReport(load, res, selectedStudent)
    /\ UNCHANGED <<store, session, nextId, op, selectedStudent, dataShown,
                   error>>
    /\ UNCHANGED call

\* GET /reports/{studentId} has answered with the aggregate
loadReportAtOnce ==
    /\ loadReportFirst
    /\ load'.branch = "aggregate"

\* a follow-up request has answered
loadReportFollowUp ==
    /\ load.pc = "follow"
    /\ \E endpoint \in load.pending :
        \E res \in FollowUpResponses(endpoint, selectedStudent) :
            load' = continued(IF res.status = StatusOk
                              THEN fetched(load, endpoint, res, selectedStudent)
                              ELSE caught(load, endpoint))
    /\ UNCHANGED <<store, session, nextId, op, selectedStudent, dataShown,
                   error>>
    /\ UNCHANGED call

\* loadReportMerge that takes the remote pieces only when no report is
\* shown yet
loadReportMergeFirstOnly ==
    /\ load.pc = "merge"
    /\ dataShown' =
           [isNull |-> FALSE,
            student |-> load.student,
            adaptations |->
                merged(IF dataShown.isNull THEN load.adaptations ELSE <<>>,
                       getByStudent(adaptations, selectedStudent)),
            reports |->
                merged(IF dataShown.isNull THEN load.reports ELSE <<>>,
                       getByStudent(reports, selectedStudent))]
    /\ load' = [NoLoad EXCEPT !.path = "merge", !.branch = load.branch,
                              !.failed = load.failed, !.prev = load.prev,
                              !.arrived = load.arrived]
    /\ UNCHANGED <<store, session, nextId, op, selectedStudent, error>>
    /\ UNCHANGED call

\* api.getStudentReport has settled: the remote pieces are merged with the
\* local records of the student, setData(merged), setLoading(false)
loadReportMerge ==
    /\ load.pc = "merge"
    /\ dataShown' = [isNull |-> FALSE,
                student |-> load.student,
                adaptations |-> merged(load.adaptations,
                                       getByStudent(adaptations, selectedStudent)),
                reports |-> merged(load.reports,
                                   getByStudent(reports, selectedStudent))]
    /\ load' = [NoLoad EXCEPT !.path = "merge", !.branch = load.branch,
                              !.failed = load.failed, !.prev = load.prev,
                              !.arrived = load.arrived]
    /\ UNCHANGED <<store, session, nextId, op, selectedStudent, error>>
    /\ UNCHANGED call

\* the back button of the report
handleReportBack ==
    /\ Idle
    /\ selectedStudent # "" /\ ~loading
    /\ Unmounted
    /\ UNCHANGED <<store, session, nextId, op>>
    /\ UNCHANGED call

-----------------------------------------------------------------------------
(* AdaptationForm.handleSubmit *)

\* what is typed into the form of a new adaptation, of an edited one
NewAdaptationData ==
    { [description |-> "Prova oral", justification |-> "Laudo 12",
       date |-> "2024-02-10"] }
EditedAdaptationData ==
    { [description |-> "Texto ampliado", justification |-> "Parecer 7",
       date |-> "2024-02-20"] }

\* the student of the report that is open and shown: the forms and the
\* buttons are rendered when loading is false, error is '' and data is set
ViewStudents ==
    IF selectedStudent # "" /\ ~loading /\ error = "" /\ ~dataShown.isNull
    THEN {selectedStudent} ELSE {}

\* the adaptations shown, each with its edit and delete button
shownAdaptations(sid) == Range(dataShown.adaptations)

\* the data handleSubmit passes to adaptationStorage.create and update
adaptationData(id, studentId, form) ==
    [id |-> id, studentId |-> studentId, description |-> form.description,
     justification |-> form.justification, date |-> toISOString(form.date)]

adaptationUpdates(form) ==
    [description |-> form.description, justification |-> form.justification,
     date |-> toISOString(form.date)]

\* submit of the form without an adaptation: POST /adaptations is issued
adaptationFormCreate ==
    /\ Idle
    /\ user # NoUser /\ IsCoordinator(user)
    /\ load.prepends < MaxPrepends
    /\ nextId < MaxIds
    /\ \E sid \in ViewStudents, form \in NewAdaptationData :
        op' = Started("AdaptationForm.create", "post",
                      [studentId |-> sid, id |-> "", form |-> form],
                      Req("POST", "/adaptations"), <<>>)
    /\ UNCHANGED <<store, session, nextId, studentReport>>
    /\ UNCHANGED call

\* the POST has answered: adaptationStorage.create in each of the three
\* branches, then onSuccess(created)
adaptationFormCreated ==
    /\ op.name = "AdaptationForm.create" /\ op.pc = "post"
    /\ \E r \in CreateResponses :
        LET data == adaptationData(IF r.status = StatusOk THEN r.id ELSE "",
                                   op.arg.studentId, op.arg.form)
            created == newAdaptation(data, currentUser, nextId)
            o == Settled(Answered(op, r),
                         IF r.status = StatusOk THEN "ok" ELSE "failed")
        IN  /\ adaptations' = Append(adaptations, created)
            /\ nextId' = nextId + 1
            /\ op' = Finished(o, "ok", created)
            /\ loadReport(created, NoAdaptation, "adaptations")
    /\ UNCHANGED <<users, students, reports, currentUser, session>>
    /\ UNCHANGED call

\* submit of the form with an adaptation: PUT on the flat path is issued
adaptationFormUpdate ==
    /\ Idle
    /\ user # NoUser /\ IsCoordinator(user)
    /\ load.prepends < MaxPrepends
    /\ \E sid \in ViewStudents, form \in EditedAdaptationData :
        \E a \in shownAdaptations(sid) :
            op' = Started("AdaptationForm.update", "flat",
                          [studentId |-> sid, id |-> a.id, form |-> form],
                          Req("PUT", flatPath("adaptations", a.id)), <<>>)
    /\ UNCHANGED <<store, session, nextId, studentReport>>
    /\ UNCHANGED call

\* api.updateAdaptation has settled: adaptationStorage.update, onSuccess
adaptationFormUpdated(o) ==
    LET updates == adaptationUpdates(o.arg.form)
    IN  /\ adaptations' = storageUpdate(adaptations, o.arg.id, updates)
        /\ op' = Finished(o, "ok",
               storageUpdated(adaptations, o.arg.id, updates, NoAdaptation))
        /\ loadReport(storageUpdated(adaptations, o.arg.id, updates,
                                     NoAdaptation),
                      NoAdaptation, "adaptations")
        /\ UNCHANGED <<users, students, reports, currentUser, session, nextId>>

\* the flat-path PUT has answered
adaptationFormUpdateFlat ==
    /\ op.name = "AdaptationForm.update" /\ op.pc = "flat"
    /\ \E r \in WriteResponses :
        LET o == apiAfterFlat(op, r, "PUT", "adaptations")
        IN  IF o.remote = "pending"
            THEN op' = o /\ UNCHANGED <<store, session, nextId, studentReport>>
            ELSE adaptationFormUpdated(o)
    /\ UNCHANGED call

\* the nested-path PUT has answered
adaptationFormUpdateNested ==
    /\ op.name = "AdaptationForm.update" /\ op.pc = "nested"
    /\ \E r \in WriteResponses : adaptationFormUpdated(apiAfterNested(op, r))
    /\ UNCHANGED call

-----------------------------------------------------------------------------
(* ReportForm.handleSubmit, the dual-write form *)

\* what is typed into the form of a new report, of an edited one
NewReportData ==
    { [subject |-> "Português", result |-> "positivo",
       description |-> "Boa evolução", date |-> "2024-02-15"] }
EditedReportData ==
    { [subject |-> "História", result |-> "negativo",
       description |-> "Faltas", date |-> "2024-02-25"] }

\* the reports shown with their edit and delete buttons:
\* user?.id === report.teacherId
editableReports(sid) ==
    {dataShown.reports[i] : i \in
        {j \in 1..Len(dataShown.reports) :
            /\ "teacherId" \in DOMAIN dataShown.reports[j]
            /\ dataShown.reports[j].teacherId = user.id}}

reportData(id, studentId, form) ==
    [id |-> id, studentId |-> studentId, subject |-> form.subject,
     result |-> form.result, description |-> form.description,
     date |-> toISOString(form.date)]

reportUpdates(form) ==
    [subject |-> form.subject, result |-> form.result,
     description |-> form.description, date |-> toISOString(form.date)]

\* submit of the form without a report: POST /reports is issued
reportFormCreate ==
    /\ Idle
    /\ user # NoUser
    /\ load.prepends < MaxPrepends
    /\ nextId < MaxIds
    /\ \E sid \in ViewStudents, form \in NewReportData :
        op' = Started("ReportForm.create", "post",
                      [studentId |-> sid, id |-> "", form |-> form],
                      Req("POST", "/reports"), <<>>)
    /\ UNCHANGED <<store, session, nextId, studentReport>>
    /\ UNCHANGED call

\* the POST has answered: reportStorage.create in each of the three branches,
\* then onSuccess(created)
reportFormCreated ==
    /\ op.name = "ReportForm.create" /\ op.pc = "post"
    /\ \E r \in CreateResponses :
        LET data == reportData(IF r.status = StatusOk THEN r.id ELSE "",
                               op.arg.studentId, op.arg.form)
            created == newReport(data, currentUser, nextId)
            o == Settled(Answered(op, r),
                         IF r.status = StatusOk THEN "ok" ELSE "failed")
        IN  /\ reports' = Append(reports, created)
            /\ nextId' = nextId + 1
            /\ op' = Finished(o, "ok", created)
            /\ loadReport(created, NoReport, "reports")
    /\ UNCHANGED <<users, students, adaptations, currentUser, session>>
    /\ UNCHANGED call

\* submit of the form with a report: PUT on the flat path is issued
reportFormUpdate ==
    /\ Idle
    /\ user # NoUser
    /\ load.prepends < MaxPrepends
    /\ \E sid \in ViewStudents, form \in EditedReportData :
        \E rep \in editableReports(sid) :
            op' = Started("ReportForm.update", "flat",
                          [studentId |-> sid, id |-> rep.id, form |-> form],
                          Req("PUT", flatPath("reports", rep.id)), <<>>)
    /\ UNCHANGED <<store, session, nextId, studentReport>>
    /\ UNCHANGED call

\* api.updateReport has settled: reportStorage.update, onSuccess
reportFormUpdated(o) ==
    LET updates == reportUpdates(o.arg.form)
    IN  /\ reports' = storageUpdate(reports, o.arg.id, updates)
        /\ op' = Finished(o, "ok",
               storageUpdated(reports, o.arg.id, updates, NoReport))
        /\ loadReport(storageUpdated(reports, o.arg.id, updates, NoReport),
                      NoReport, "reports")
        /\ UNCHANGED <<users, students, adaptations, currentUser, session,
                       nextId>>

\* the flat-path PUT has answered
reportFormUpdateFlat ==
    /\ op.name = "ReportForm.update" /\ op.pc = "flat"
    /\ \E r \in WriteResponses :
        LET o == apiAfterFlat(op, r, "PUT", "reports")
        IN  IF o.remote = "pending"
            THEN op' = o /\ UNCHANGED <<store, session, nextId, studentReport>>
            ELSE reportFormUpdated(o)
    /\ UNCHANGED call

\* the nested-path PUT has answered
reportFormUpdateNested ==
    /\ op.name = "ReportForm.update" /\ op.pc = "nested"
    /\ \E r \in WriteResponses : reportFormUpdated(apiAfterNested(op, r))
    /\ UNCHANGED call

-----------------------------------------------------------------------------
(* ReportForm.handleSubmit, the remote-only form (components/ReportForm.tsx) *)

\* err.message || 'Erro ao salvar relato' of a failed api call
RequestError == "Erro na requisição"

\* submit without a report: POST /reports is issued
apiReportFormCreate ==
    /\ Idle
    /\ user # NoUser
    /\ load.prepends < MaxPrepends
    /\ \E sid \in ViewStudents, form \in NewReportData :
        op' = Started("ApiReportForm.create", "post",
                      [studentId |-> sid, id |-> "", form |-> form],
                      Req("POST", "/reports"), <<>>)
    /\ UNCHANGED <<store, session, nextId, studentReport>>
    /\ UNCHANGED call

\* the POST has answered: onSuccess(the response body), or the error is shown
apiReportFormCreated ==
    /\ op.name = "ApiReportForm.create" /\ op.pc = "post"
    /\ \E r \in CreateResponses :
        LET o == Answered(op, r)
            body == [reportData(r.id, op.arg.studentId, op.arg.form)
                        EXCEPT !.date = toISOString(op.arg.form.date)]
        IN  IF r.status = StatusOk
            THEN /\ op' = Finished(Settled(o, "ok"), "ok", body)
                 /\ loadReport(body, NoReport, "reports")
            ELSE /\ op' = Finished(Settled(o, "failed"), RequestError,
                                   NoReport)
                 /\ UNCHANGED studentReport
    /\ UNCHANGED <<store, session, nextId>>
    /\ UNCHANGED call

\* submit with a report: PUT on the flat path is issued
apiReportFormUpdate ==
    /\ Idle
    /\ user # NoUser
    /\ \E sid \in ViewStudents, form \in EditedReportData :
        \E rep \in editableReports(sid) :
            op' = Started("ApiReportForm.update", "flat",
                          [studentId |-> sid, id |-> rep.id, form |-> form],
                          Req("PUT", flatPath("reports", rep.id)), <<>>)
    /\ UNCHANGED <<store, session, nextId, studentReport>>
    /\ UNCHANGED call

\* api.updateReport has settled: onSuccess(undefined), or the error is shown
apiReportFormUpdated(o) ==
    /\ op' = Finished(o, IF o.remote = "ok" THEN "ok" ELSE RequestError,
                      NoReport)
    /\ IF o.remote = "ok"
       THEN loadReport(NoReport, NoReport, "reports")
       ELSE UNCHANGED studentReport
    /\ UNCHANGED <<store, session, nextId>>

\* the flat-path PUT has answered
apiReportFormUpdateFlat ==
    /\ op.name = "ApiReportForm.update" /\ op.pc = "flat"
    /\ \E r \in WriteResponses :
        LET o == apiAfterFlat(op, r, "PUT", "reports")
        IN  IF o.remote = "pending"
            THEN op' = o /\ UNCHANGED <<store, session, nextId, studentReport>>
            ELSE apiReportFormUpdated(o)
    /\ UNCHANGED call

\* the nested-path PUT has answered
apiReportFormUpdateNested ==
    /\ op.name = "ApiReportForm.update" /\ op.pc = "nested"
    /\ \E r \in WriteResponses : apiReportFormUpdated(apiAfterNested(op, r))
    /\ UNCHANGED call

-----------------------------------------------------------------------------
(* StudentReport.handleDeleteAdaptation, handleDeleteReport *)

\* the delete button of a shown adaptation, confirmed: adaptationStorage.delete,
\* then DELETE on the flat path is issued
handleDeleteAdaptation ==
    /\ Idle
    /\ user # NoUser /\ IsCoordinator(user)
    /\ \E sid \in ViewStudents :
        \E a \in shownAdaptations(sid) :
            /\ adaptations' = storageDelete(adaptations, a.id)
            /\ op' = Started("handleDeleteAdaptation", "flat",
                             [studentId |-> sid, id |-> a.id, form |-> NoArg],
                             Req("DELETE", flatPath("adaptations", a.id)), <<>>)
    /\ UNCHANGED <<users, students, reports, currentUser, session, nextId, studentReport>>
    /\ UNCHANGED call

\* a DELETE of the adaptation has answered: the nested request, or the toast
handleDeleteAdaptationAnswer ==
    /\ op.name = "handleDeleteAdaptation" /\ op.pc \in {"flat", "nested"}
    /\ \E r \in WriteResponses :
        LET o == IF op.pc = "flat"
                 THEN apiAfterFlat(op, r, "DELETE", "adaptations")
                 ELSE apiAfterNested(op, r)
        IN  IF o.remote = "pending"
            THEN op' = o /\ UNCHANGED studentReport
            ELSE /\ op' = Finished(o, "ok", NoAdaptation)
                 /\ loadReport(NoAdaptation, NoAdaptation, "adaptations")
    /\ UNCHANGED <<store, session, nextId>>
    /\ UNCHANGED call

\* the delete button of a shown report, confirmed: reportStorage.delete, then
\* DELETE on the flat path is issued
handleDeleteReport ==
    /\ Idle
    /\ user # NoUser
    /\ \E sid \in ViewStudents :
        \E rep \in editableReports(sid) :
            /\ reports' = storageDelete(reports, rep.id)
            /\ op' = Started("handleDeleteReport", "flat",
                             [studentId |-> sid, id |-> rep.id, form |-> NoArg],
                             Req("DELETE", flatPath("reports", rep.id)), <<>>)
    /\ UNCHANGED <<users, students, adaptations, currentUser, session, nextId, studentReport>>
    /\ UNCHANGED call

\* a DELETE of the report has answered: the nested request, or the toast
handleDeleteReportAnswer ==
    /\ op.name = "handleDeleteReport" /\ op.pc \in {"flat", "nested"}
    /\ \E r \in WriteResponses :
        LET o == IF op.pc = "flat"
                 THEN apiAfterFlat(op, r, "DELETE", "reports")
                 ELSE apiAfterNested(op, r)
        IN  IF o.remote = "pending"
            THEN op' = o /\ UNCHANGED studentReport
            ELSE /\ op' = Finished(o, "ok", NoReport)
                 /\ loadReport(NoReport, NoReport, "reports")
    /\ UNCHANGED <<store, session, nextId>>
    /\ UNCHANGED call

-----------------------------------------------------------------------------
(* ApiStudentList.handleImport, CoordinatorDashboard.handleDeleteStudent *)

\* students as the remote /students endpoint lists them
RemoteStudents ==
    { [id |-> "rs1", name |-> "Caio Lima", course |-> "Ensino Médio",
       class |-> "", turma |-> "1C", birthDate |-> "2007-01-30",
       registrationNumber |-> "", guardianName |-> "",
       guardianContact |-> ""] }

\* studentPartial of handleImport
studentPartial(remote) ==
    [name |-> remote.name, course |-> remote.course,
     class |-> Or(remote.class, remote.turma),
     birthDate |-> remote.birthDate,
     registrationNumber |-> Or(remote.registrationNumber, remote.id),
     guardianName |-> remote.guardianName,
     guardianContact |-> remote.guardianContact]

\* the import button of a remote student: api.createStudent is issued
handleImport ==
    /\ Idle
    /\ user # NoUser /\ IsCoordinator(user)
    /\ selectedStudent = ""
    /\ \E remote \in RemoteStudents :
        op' = Started("handleImport", "post",
                      [studentId |-> "", id |-> "",
                       form |-> studentPartial(remote)],
                      Req("POST", "/students"), <<>>)
    /\ UNCHANGED <<store, session, nextId, studentReport>>
    /\ UNCHANGED call

\* api.createStudent has settled: the success toast and onImport(), or the
\* error toast
handleImportAnswer ==
    /\ op.name = "handleImport" /\ op.pc = "post"
    /\ \E r \in CreateResponses :
        LET o == Answered(op, r)
        IN  IF r.status = StatusOk
            THEN op' = Finished(Settled(o, "ok"), "ok", NoStudent)
            ELSE op' = Finished(Settled(o, "failed"), RequestError, NoStudent)
    /\ UNCHANGED <<store, session, nextId, studentReport>>
    /\ UNCHANGED call

\* the delete button of a listed student: api.deleteStudent is issued
handleDeleteStudent ==
    /\ Idle
    /\ user # NoUser /\ IsCoordinator(user)
    /\ selectedStudent = ""
    /\ \E sid \in ListedStudents :
        op' = Started("handleDeleteStudent", "delete",
                      [studentId |-> sid, id |-> sid, form |-> NoArg],
                      Req("DELETE", flatPath("students", sid)), <<>>)
    /\ UNCHANGED <<store, session, nextId, studentReport>>
    /\ UNCHANGED call

\* api.deleteStudent has settled: the success toast and the list refresh, or
\* the error toast
handleDeleteStudentAnswer ==
    /\ op.name = "handleDeleteStudent" /\ op.pc = "delete"
    /\ \E r \in WriteResponses :
        LET o == Answered(op, r)
        IN  IF r.status = StatusOk
            THEN op' = Finished(Settled(o, "ok"), "ok", NoStudent)
            ELSE op' = Finished(Settled(o, "failed"), RequestError, NoStudent)
    /\ UNCHANGED <<store, session, nextId, studentReport>>
    /\ UNCHANGED call

-----------------------------------------------------------------------------
(* apiFetch: the remote request primitive *)

\* data when there is no body: null. kind is "null", "object", "array" or
\* "string"; items are the elements of an array, or of the one field of an
\* object that holds an array, which arrayField names
NoBody ==
    [kind |-> "null", id |-> "", error |-> "", message |-> "", text |-> "",
     arrayField |-> "", items |-> <<>>]

\* text ? JSON.parse(text) : null, and the text itself when JSON.parse throws
parse(text) ==
    CASE text = "" -> NoBody
      [] text = "{id: r9}" -> [NoBody EXCEPT !.kind = "object", !.id = "r9"]
      [] text = "{error: negado}" ->
             [NoBody EXCEPT !.kind = "object", !.error = "negado"]
      [] text = "{message: sem vaga}" ->
             [NoBody EXCEPT !.kind = "object", !.message = "sem vaga"]
      [] text = "[{id: x1}]" ->
             [NoBody EXCEPT !.kind = "array", !.items = <<[id |-> "x1"]>>]
      [] text = "[]" -> [NoBody EXCEPT !.kind = "array"]
      [] text \in {"{value: [{id: x1}]}", "{students: [{id: x1}]}",
                   "{adaptations: [{id: x1}]}", "{reports: [{id: x1}]}",
                   "{data: [{id: x1}]}"} ->
             [NoBody EXCEPT !.kind = "object",
                            !.arrayField =
                                CASE text = "{value: [{id: x1}]}" -> "value"
                                  [] text = "{students: [{id: x1}]}" -> "students"
                                  [] text = "{adaptations: [{id: x1}]}" ->
                                         "adaptations"
                                  [] text = "{reports: [{id: x1}]}" -> "reports"
                                  [] OTHER -> "data",
                            !.items = <<[id |-> "x1"]>>]
      [] OTHER -> [NoBody EXCEPT !.kind = "string", !.text = text]

\* response.ok
ok(status) == status \in 200..299

NoError == [name |-> "", message |-> "", status |-> NoStatus, body |-> NoBody]

\* the error thrown for a response that is not ok; its message is
\* (data && (data.error || data.message)) || response.statusText
\* || 'Erro na requisição'
requestError(status, statusText, data) ==
    [name |-> "Error",
     message |-> Or(Or(Or(data.error, data.message), statusText),
                    "Erro na requisição"),
     status |-> status, body |-> data]

\* the error thrown when fetch rejects with an AbortError
timeoutError ==
    [name |-> "Error", message |-> "Tempo de requisição esgotado",
     status |-> StatusTimeout, body |-> NoBody]

\* the error fetch or response.text() rejects with when the network fails
networkError ==
    [name |-> "TypeError", message |-> "Failed to fetch",
     status |-> NoStatus, body |-> NoBody]

\* no call of apiFetch yet. timer is the timeout set at the start of the
\* call (none, armed, cleared, fired); elapsed tells that the time of the
\* timeout has passed while the call was pending
NoCall ==
    [pc |-> "idle", input |-> "", timer |-> "none", elapsed |-> FALSE,
     status |-> NoStatus, statusText |-> "", text |-> "",
     settled |-> "none", value |-> NoBody, thrown |-> NoError,
     list |-> [settled |-> "none", value |-> <<>>]]

\* Array.isArray(res) ? res : Array.isArray(res.value) ? res.value
\* : Array.isArray(res[entity]) ? res[entity] : []
unwrap(res, entity) ==
    IF res.kind = "array" THEN res.items
    ELSE IF res.kind = "object" /\ res.arrayField \in {"value", entity}
         THEN res.items
         ELSE <<>>

\* api.getStudents on the settled call of apiFetch: no catch
getStudents(c) ==
    IF c.settled = "thrown" THEN [settled |-> "thrown", value |-> <<>>]
    ELSE [settled |-> "returned", value |-> unwrap(c.value, "students")]

\* api.getAdaptations, api.getReports on the settled call of apiFetch: a 404
\* is caught and [] returned
getOfStudent(c, entity) ==
    IF c.settled = "thrown"
    THEN IF c.thrown.status = StatusNotFound
         THEN [settled |-> "returned", value |-> <<>>]
         ELSE [settled |-> "thrown", value |-> <<>>]
    ELSE [settled |-> "returned", value |-> unwrap(c.value, entity)]

\* the list operation of an input
entityOf(input) ==
    CASE input = "/students" -> "students"
      [] input = "/adaptations/s1" -> "adaptations"
      [] OTHER -> "reports"

\* apiFetch(input): the controller, setTimeout, fetch(input, {signal})
apiFetch ==
    /\ call.pc \in {"idle", "done"}
    /\ \E input \in {"/students", "/adaptations/s1", "/reports/s1"} :
           call' = [NoCall EXCEPT !.pc = "fetch", !.input = input,
                                  !.timer = "armed"]
    /\ UNCHANGED <<store, session, nextId, op, studentReport>>

\* fetch has resolved with the response: clearTimeout(timer), then
\* response.text() is awaited
apiFetchResponse ==
    /\ call.pc = "fetch"
    /\ \E head \in { [status |-> StatusOk, statusText |-> "OK"],
                      [status |-> StatusNotFound, statusText |-> "Not Found"],
                      [status |-> StatusServerError, statusText |-> ""] } :
           call' = [call EXCEPT !.pc = "text", !.timer = "cleared",
                                !.status = head.status,
                                !.statusText = head.statusText]
    /\ UNCHANGED <<store, session, nextId, op, studentReport>>

\* fetch has rejected, the network having failed: the error is thrown
\* again, and the timer is left armed
apiFetchRejected ==
    /\ call.pc = "fetch"
    /\ call' = [call EXCEPT !.pc = "done", !.settled = "thrown",
                            !.thrown = networkError]
    /\ UNCHANGED <<store, session, nextId, op, studentReport>>

\* the time of the timeout passes while the call is pending: an armed timer
\* calls controller.abort(), fetch rejects with an AbortError and apiFetch
\* throws timeoutError; a cleared timer does nothing
apiFetchTimeout ==
    /\ call.pc \in {"fetch", "text"}
    /\ ~call.elapsed
    /\ call' = IF call.timer = "armed"
               THEN [call EXCEPT !.elapsed = TRUE, !.timer = "fired",
                                 !.pc = "done", !.settled = "thrown",
                                 !.thrown = timeoutError]
               ELSE [call EXCEPT !.elapsed = TRUE]
    /\ UNCHANGED <<store, session, nextId, op, studentReport>>

\* the timer left armed by a call that has thrown fires: controller.abort()
\* of a fetch that has settled
apiFetchStaleTimer ==
    /\ call.pc = "done" /\ call.timer = "armed"
    /\ call' = [call EXCEPT !.timer = "fired"]
    /\ UNCHANGED <<store, session, nextId, op, studentReport>>

\* response.text() has resolved: data is parsed, and returned or thrown in
\* an error with the status
apiFetchText ==
    /\ call.pc = "text"
    /\ \E text \in {"", "{id: r9}", "{error: negado}", "{message: sem vaga}",
                     "<html>", "[{id: x1}]", "[]", "{value: [{id: x1}]}",
                     "{students: [{id: x1}]}", "{adaptations: [{id: x1}]}",
                     "{reports: [{id: x1}]}", "{data: [{id: x1}]}"} :
           call' = IF ok(call.status)
                   THEN [call EXCEPT !.pc = "done", !.text = text,
                                     !.settled = "returned",
                                     !.value = parse(text)]
                   ELSE [call EXCEPT !.pc = "done", !.text = text,
                                     !.settled = "thrown",
                                     !.thrown = requestError(call.status,
                                         call.statusText, parse(text))]
    /\ UNCHANGED <<store, session, nextId, op, studentReport>>

\* the list operation that awaited the call goes on: api.getStudents,
\* api.getAdaptations or api.getReports returns or throws
apiList ==
    /\ call.pc = "done" /\ call.list.settled = "none"
    /\ call' = [call EXCEPT !.list =
                    IF entityOf(call.input) = "students"
                    THEN getStudents(call)
                    ELSE getOfStudent(call, entityOf(call.input))]
    /\ UNCHANGED <<store, session, nextId, op, studentReport>>

\* response.text() has rejected, the connection having dropped
apiFetchTextRejected ==
    /\ call.pc = "text"
    /\ call' = [call EXCEPT !.pc = "done", !.settled = "thrown",
                            !.thrown = networkError]
    /\ UNCHANGED <<store, session, nextId, op, studentReport>>

\* the response to the request a handler awaits has come, the timer is
\* cleared, and its body never does: response.text() stays pending and with
\* it the api.* call and the handler
apiFetchBodyStalls ==
    /\ op.pc \notin {"done", "stalled"} /\ op.remote = "pending"
    /\ op' = [op EXCEPT !.pc = "stalled"]
    /\ UNCHANGED <<store, session, nextId, studentReport, call>>

-----------------------------------------------------------------------------
(* The specification *)

Init ==
    /\ users = <<>>
    /\ students = <<>>
    /\ adaptations = <<>>
    /\ reports = <<>>
    /\ currentUser = NoUser
    /\ token = ""
    /\ storedUser = NoUser
    /\ user = NoUser
    /\ nextId = 0
    /\ op = NoOp
    /\ selectedStudent = ""
    /\ dataShown = NoData
    /\ error = ""
    /\ load = NoLoad
    /\ call = NoCall

\* the sign-in chain, the session and the users collection
NextAuth ==
    \/ Mount
    \/ ApiMount
    \/ signOut
    \/ importUsersFromApi
    \/ signIn
    \/ signInSession
    \/ signInMe
    \/ signInLookup
    \/ apiSignIn
    \/ apiSignInLookup

\* the report of a student is opened, loaded and closed
NextRead ==
    \/ StudentReport
    \/ loadReportFirst
    \/ loadReportFollowUp
    \/ loadReportMerge
    \/ handleReportBack

\* the dual-write handlers, in the report that is open or in the list, with
\* a remote that answers api.getStudentReport with the aggregate
NextWrite ==
    \/ StudentReport
    \/ loadReportAtOnce
    \/ loadReportMerge
    \/ handleReportBack
    \/ adaptationFormCreate
    \/ adaptationFormCreated
    \/ adaptationFormUpdate
    \/ adaptationFormUpdateFlat
    \/ adaptationFormUpdateNested
    \/ reportFormCreate
    \/ reportFormCreated
    \/ reportFormUpdate
    \/ reportFormUpdateFlat
    \/ reportFormUpdateNested
    \/ apiReportFormCreate
    \/ apiReportFormCreated
    \/ apiReportFormUpdate
    \/ apiReportFormUpdateFlat
    \/ apiReportFormUpdateNested
    \/ handleDeleteAdaptation
    \/ handleDeleteAdaptationAnswer
    \/ handleDeleteReport
    \/ handleDeleteReportAnswer
    \/ handleImport
    \/ handleImportAnswer
    \/ handleDeleteStudent
    \/ handleDeleteStudentAnswer

\* the dual-write handlers of the report view, whose requests settle or
\* stall
NextDualWrite ==
    \/ StudentReport
    \/ loadReportAtOnce
    \/ loadReportMerge
    \/ handleReportBack
    \/ adaptationFormCreate
    \/ adaptationFormCreated
    \/ adaptationFormUpdate
    \/ adaptationFormUpdateFlat
    \/ adaptationFormUpdateNested
    \/ reportFormCreate
    \/ reportFormCreated
    \/ reportFormUpdate
    \/ reportFormUpdateFlat
    \/ reportFormUpdateNested
    \/ handleDeleteAdaptation
    \/ handleDeleteAdaptationAnswer
    \/ handleDeleteReport
    \/ handleDeleteReportAnswer
    \/ apiFetchBodyStalls

\* the steps a handler takes when the request it awaits has settled: the
\* event loop runs the continuation of every settled promise
Continuations ==
    \/ adaptationFormCreated
    \/ adaptationFormUpdateFlat
    \/ adaptationFormUpdateNested
    \/ reportFormCreated
    \/ reportFormUpdateFlat
    \/ reportFormUpdateNested
    \/ handleDeleteAdaptationAnswer
    \/ handleDeleteReportAnswer
    \/ loadReportAtOnce
    \/ loadReportMerge

\* the calls of apiFetch
NextFetch ==
    \/ apiFetch
    \/ apiFetchResponse
    \/ apiFetchRejected
    \/ apiFetchTimeout
    \/ apiFetchStaleTimer
    \/ apiFetchText
    \/ apiFetchTextRejected
    \/ apiList

Next == NextAuth \/ NextRead \/ NextWrite \/ NextFetch \/ NextDualWrite

Spec == Init /\ [][Next]_vars

\* the sign-in chain alone
SpecAuth == Init /\ [][NextAuth]_vars

\* the sign-in chain over a localStorage that is also edited from outside
NextSession ==
    \/ Mount
    \/ ApiMount
    \/ signOut
    \/ signIn
    \/ signInSession
    \/ signInMe
    \/ signInLookup
    \/ apiSignIn
    \/ apiSignInLookup
    \/ localStorageEdited

SpecSession == Init /\ [][NextSession]_vars

\* The store after the first page load (Mount from the empty localStorage).
Seeded ==
    LET u == initializeDefaultUsers(<<>>, 0)
        d == initializeDefaultData(u.users, <<>>, <<>>, <<>>, u.nextId)
    IN  /\ users = u.users
        /\ students = d.students
        /\ adaptations = d.adaptations
        /\ reports = d.reports
        /\ nextId = d.nextId

\* The states after the first page load, one sign-in and a reload of the
\* page: the coordinator or the teacher signed in by the local stage, or a
\* remote coordinator signed in by the lookup stage.
InitWrite ==
    /\ Seeded
    /\ \/ \E u \in Range(users) :
            /\ currentUser = u
            /\ token = "mock-token-" \o u.id
            /\ storedUser = u
       \/ /\ currentUser = NoUser
          /\ token = "mock-api-" \o RemoteAna.email
          /\ storedUser = lookupProfile(RemoteAna)
    /\ user = storedUser
    /\ op = Sync("mount", NoArg, "ok", storedUser)
    /\ selectedStudent = ""
    /\ dataShown = NoData
    /\ error = ""
    /\ load = NoLoad
    /\ call = NoCall

\* the dual-write handlers under an established session
SpecWrite == InitWrite /\ [][NextWrite]_vars

\* the dual-write handlers, every request of which settles unless its body
\* stalls, and every continuation of which runs
SpecDualWrite ==
    InitWrite /\ [][NextDualWrite]_vars /\ WF_vars(Continuations)

\* the remote request primitive alone
SpecFetch == Init /\ [][NextFetch]_vars

\* the report of a student under an established session
SpecRead == InitWrite /\ [][NextRead]_vars

\* the report of a student, fetched again after the edit of an adaptation
NextReload ==
    \/ NextRead
    \/ adaptationFormUpdate
    \/ adaptationFormUpdateFlat
    \/ adaptationFormUpdateNested

SpecReload == InitWrite /\ [][NextReload]_vars

-----------------------------------------------------------------------------
(* Properties *)

Ids(coll) == {coll[i].id : i \in 1..Len(coll)}

CreateHandlers == {"AdaptationForm.create", "ReportForm.create"}
UpdateHandlers == {"AdaptationForm.update", "ReportForm.update"}
DeleteHandlers == {"handleDeleteAdaptation", "handleDeleteReport"}

\* the collection a handler of the forms or of the report view writes
CollectionOf(name) ==
    IF name \in {"AdaptationForm.create", "AdaptationForm.update",
                 "handleDeleteAdaptation"}
    THEN adaptations ELSE reports

\* the path segment of the entity of a handler
EntityOf(name) ==
    IF name \in {"AdaptationForm.create", "AdaptationForm.update",
                 "handleDeleteAdaptation"}
    THEN "adaptations" ELSE "reports"

\* the remote create of the finished handler answered with an object with an id
RemoteGaveId ==
    /\ op.pc = "done"
    /\ Len(op.resps) = 1
    /\ op.resps[1].status = StatusOk
    /\ op.resps[1].id # ""

\* C1: a create of a Student, Adaptation or Report whose remote create
\* succeeded and returned an object with identifier X has added to the Local
\* Record Store a record with identifier exactly X.
C1_CreateKeepsRemoteId ==
    /\ (op.name \in CreateHandlers /\ RemoteGaveId) =>
            /\ op.ret.id = op.resps[1].id
            /\ op.resps[1].id \in Ids(CollectionOf(op.name))
    /\ (op.name = "handleImport" /\ RemoteGaveId) =>
            op.resps[1].id \in Ids(students)

\* every request of the finished sign-in was rejected (the remote is
\* unreachable)
RemoteUnreachable ==
    \A i \in 1..Len(op.resps) : op.resps[i].status = NoStatus

\* C2: signIn with a pair of the local credential table, every remote
\* endpoint unreachable, succeeds in every state of the users collection: it
\* returns the local user of that e-mail (role professor for
\* professor@escola.com) and persists the token "mock-token-" + id with the
\* user.
C2_LocalSignInSucceeds ==
    (/\ op.name = "signIn" /\ op.pc = "done"
     /\ isValid(op.arg.email, op.arg.password)
     /\ RemoteUnreachable)
    => /\ op.outcome = "ok"
       /\ op.ret \in Range(users)
       /\ op.ret.email = op.arg.email
       /\ (op.arg.email = ProfEmail => op.ret.role = "professor")
       /\ token = "mock-token-" \o op.ret.id
       /\ storedUser = op.ret

\* C3: after a Student creation whose remote create failed, the students
\* collection of the Local Record Store holds a record with the submitted
\* fields.
C3_FailedStudentCreateIsLocal ==
    (op.name = "handleImport" /\ op.pc = "done" /\ op.remote = "failed")
    => \E st \in Range(students) :
           /\ st.name = op.arg.form.name
           /\ st.course = op.arg.form.course
           /\ st.class = op.arg.form.class
           /\ st.birthDate = op.arg.form.birthDate
           /\ st.registrationNumber = op.arg.form.registrationNumber

\* C4: after the delete of the Student S, whether the remote delete succeeded
\* or failed, the Local Record Store holds no Student S and no Adaptation or
\* Report of S.
C4_StudentDeleteCascades ==
    (op.name = "handleDeleteStudent" /\ op.pc = "done")
    => /\ op.arg.id \notin Ids(students)
       /\ \A a \in Range(adaptations) : a.studentId # op.arg.id
       /\ \A r \in Range(reports) : r.studentId # op.arg.id

\* the session stage of the sign-in in op has succeeded: a token was granted
\* and /me answered ok with a body that parses
SessionStageSucceeded ==
    /\ Len(op.resps) >= 2
    /\ op.resps[1].status = StatusOk /\ op.resps[1].accessToken # ""
    /\ op.resps[2].status = StatusOk /\ ~op.resps[2].malformed

\* the users a lookup response lists under a shape the code unwraps
Listed(r) ==
    IF r.status = StatusOk /\ ~r.malformed
       /\ r.shape \in {"array", "value", "users"}
    THEN Range(r.list) ELSE {}

\* the lookup stage of the finished sign-in in op has succeeded: its response
\* lists a user with the e-mail typed
LookupStageSucceeded ==
    /\ op.pc = "done"
    /\ Len(op.stages) >= 2
    /\ \E u \in Listed(op.resps[Len(op.resps)]) :
           u.email # "" /\ toLowerCase(u.email) = toLowerCase(op.arg.email)

\* C5: signIn tries the stages in the order session, lookup, local; the
\* session persisted is the one of the first stage that succeeds, and no
\* later stage is attempted after it.
C5_StagesInPriorityOrder ==
    op.name = "signIn" =>
        /\ op.stages \in { <<"session">>, <<"session", "lookup">>,
                           <<"session", "lookup", "local">> }
        /\ SessionStageSucceeded =>
               /\ op.pc = "done" /\ op.outcome = "ok"
               /\ op.stages = <<"session">>
               /\ token = op.resps[1].accessToken
               /\ storedUser \in {op.resps[2].user, op.resps[2].self} \ {NoUser}
               /\ user = storedUser
        /\ (~SessionStageSucceeded /\ LookupStageSucceeded) =>
               /\ op.outcome = "ok"
               /\ op.stages = <<"session", "lookup">>
               /\ \E u \in Listed(op.resps[Len(op.resps)]) :
                      token = "mock-api-" \o u.email
               /\ user = storedUser
        /\ (op.pc = "done" /\ ~SessionStageSucceeded /\ ~LookupStageSucceeded) =>
               /\ op.stages = <<"session", "lookup", "local">>
               /\ op.outcome = "ok" =>
                      /\ token = "mock-token-" \o op.ret.id
                      /\ storedUser = op.ret /\ user = op.ret

\* the second stage succeeds after the first has failed
C5_Witness ==
    /\ op.name = "signIn" /\ op.pc = "done" /\ op.outcome = "ok"
    /\ op.stages = <<"session", "lookup">>
    /\ op.resps[1].accessToken # "" /\ op.resps[2].status = StatusServerError
    /\ token = "mock-api-" \o "Ana@Escola.com"

\* C6: signIn never raises a failure of the remote session stage or of the
\* remote lookup stage: it fails only when no stage produces a session, and
\* then with the authentication error.
C6_RemoteFailureNotRaised ==
    (op.name \in {"signIn", "apiSignIn"} /\ op.pc = "done"
     /\ op.outcome # "ok")
    => /\ op.outcome = AuthError
       /\ authStorage_signIn(users, op.arg.email, op.arg.password) = NoUser

\* C7: a create of an Adaptation or Report whose remote create failed still
\* succeeds: a local record with the submitted fields is created and handed
\* to the success callback.
C7_CreateSurvivesRemoteFailure ==
    (op.name \in CreateHandlers \cup {"ApiReportForm.create"}
     /\ op.pc = "done" /\ op.remote = "failed")
    => /\ op.outcome = "ok"
       /\ op.ret.studentId = op.arg.studentId
       /\ op.ret.description = op.arg.form.description
       /\ op.ret.date = toISOString(op.arg.form.date)
       /\ op.ret \in Range(CollectionOf(op.name))

\* the record at index i carries the values submitted in form
CarriesAdaptation(rec, form) ==
    /\ rec.description = form.description
    /\ rec.justification = form.justification
    /\ rec.date = toISOString(form.date)

CarriesReport(rec, form) ==
    /\ rec.subject = form.subject
    /\ rec.result = form.result
    /\ rec.description = form.description
    /\ rec.date = toISOString(form.date)

C9_DeletedLocallyFirst ==
    (op.name \in DeleteHandlers /\ Len(op.reqs) >= 1)
    => /\ op.arg.id \notin Ids(CollectionOf(op.name))
       /\ op.pc = "done" => op.outcome = "ok"

\* the seeded adaptation is deleted and the remote answers 404 on both paths
C9_Witness ==
    /\ op.name = "handleDeleteAdaptation" /\ op.pc = "done"
    /\ op.arg.id = generateId(5)
    /\ Len(op.resps) = 2
    /\ op.resps[1].status = StatusNotFound
    /\ op.resps[2].status = StatusNotFound
    /\ op.remote = "failed"

\* the handlers whose api call has the nested-path fallback
FallbackHandlers ==
    UpdateHandlers \cup DeleteHandlers \cup {"ApiReportForm.update"}

\* C10: remote update and remote delete of an Adaptation or Report issue the
\* flat-path request first; the nested-path request is issued exactly when
\* the flat-path request failed with 404, once, and before the call is
\* reported as failed; no other failure is retried.
C10_NestedRetryOn404Only ==
    op.name \in FallbackHandlers =>
        LET entity == IF op.name = "ApiReportForm.update" THEN "reports"
                      ELSE EntityOf(op.name)
            method == IF op.name \in DeleteHandlers THEN "DELETE" ELSE "PUT"
        IN  /\ Len(op.reqs) \in {1, 2}
            /\ op.reqs[1] = Req(method, flatPath(entity, op.arg.id))
            /\ Len(op.reqs) = 2 <=>
                   (Len(op.resps) >= 1 /\ op.resps[1].status = StatusNotFound)
            /\ Len(op.reqs) = 2 =>
                   op.reqs[2] = Req(method,
                       nestedPath(entity, op.arg.studentId, op.arg.id))
            /\ op.remote = "pending" <=> Len(op.resps) < Len(op.reqs)
            /\ op.remote = "ok" =>
                   op.resps[Len(op.resps)].status = StatusOk
            /\ op.remote = "failed" =>
                   /\ op.resps[Len(op.resps)].status # StatusOk
                   /\ op.resps[1].status = StatusNotFound => Len(op.resps) = 2

\* a 404 on the flat path was retried on the nested path, which failed too
C10_Witness ==
    /\ op.name = "ReportForm.update"
    /\ Len(op.reqs) = 2 /\ Len(op.resps) = 2
    /\ op.resps[1].status = StatusNotFound
    /\ op.remote = "failed"

\* C14: every successful path of signIn has written the token and the user
\* of the session when it returns, and a page load that follows while that
\* user is signed in restores exactly that user from localStorage, with no
\* request to the remote.
C14_SessionPersistedAndRestored ==
    [][ /\ (op.pc # "done" /\ op'.name = "signIn" /\ op'.pc = "done"
            /\ op'.outcome = "ok")
           => /\ token' # ""
              /\ storedUser' \notin {NoUser, Unparsable}
              /\ user' = storedUser'
              /\ op'.ret = user'
        /\ (user # NoUser /\ op'.name = "mount" /\ op' # op)
           => /\ user' = user
              /\ storedUser' = user
              /\ token' = token
              /\ op'.reqs = <<>> ]_vars

\* a session made by the lookup stage has been restored by a page load
C14_Witness ==
    /\ op.name = "mount"
    /\ user # NoUser /\ user = storedUser
    /\ currentUser = NoUser
    /\ token = "mock-api-" \o "Ana@Escola.com"

\* C15: after checkSession, when the token is missing, or the user is missing
\* or cannot be parsed, neither the token nor the user remains in
\* localStorage and nobody is signed in; otherwise the stored user is signed
\* in.
C15_BrokenSessionCleared ==
    op.name \in {"mount", "apiMount"} =>
        IF token # "" /\ storedUser \notin {NoUser, Unparsable}
        THEN user = storedUser
        ELSE token = "" /\ storedUser = NoUser /\ user = NoUser

\* C16: signOut completes in every state of the persisted session, a
\* partly persisted one included; after it neither the token nor the user
\* is in localStorage, nobody is signed in, and a checkSession that follows
\* signs nobody in.
C16_SignOutClearsSession ==
    op.name = "signOut" =>
        /\ op.pc = "done" /\ op.outcome = "ok"
        /\ token = "" /\ storedUser = NoUser /\ user = NoUser
        /\ checkSession(token, storedUser).user = NoUser

\* signOut has run on a session of which only the user was left
C16_Witness ==
    /\ op.name = "signOut" /\ op.stages = <<"user">>
    /\ token = "" /\ storedUser = NoUser /\ user = NoUser

\* C17: a page load on an empty Local Record Store leaves exactly two users,
\* the coordinator and the teacher, two students created by the coordinator,
\* one adaptation created by the coordinator and one report of the teacher,
\* both for the first student.
C17_SeedFromEmptyStore ==
    [][ (/\ users = <<>> /\ students = <<>>
         /\ adaptations = <<>> /\ reports = <<>>
         /\ op'.name = "mount")
        => /\ Len(users') = 2
           /\ IsCoordinator(users'[1]) /\ IsProfessor(users'[2])
           /\ users'[1].id # "" /\ users'[2].id # ""
           /\ Len(students') = 2
           /\ students'[1].id # ""
           /\ \A i \in 1..2 : students'[i].createdBy = users'[1].id
           /\ Len(adaptations') = 1
           /\ adaptations'[1].studentId = students'[1].id
           /\ adaptations'[1].createdBy = users'[1].id
           /\ Len(reports') = 1
           /\ reports'[1].studentId = students'[1].id
           /\ reports'[1].teacherId = users'[2].id ]_vars

\* the first page load has seeded the empty store
C17_Witness ==
    /\ op.name = "mount" /\ nextId = 6
    /\ Len(users) = 2 /\ Len(students) = 2
    /\ Len(adaptations) = 1 /\ Len(reports) = 1
    /\ adaptations[1].studentId = students[1].id

C19_StampedFromSession ==
    (op.name \in CreateHandlers /\ op.pc = "done" /\ op.outcome = "ok")
    => IF op.name = "AdaptationForm.create"
       THEN op.ret.createdBy = storedUser.id
       ELSE /\ op.ret.teacherId = storedUser.id
            /\ op.ret.teacherName = storedUser.name

\* C20: no two records of a collection of the Local Record Store have the
\* same identifier.
C20_IdsUnique ==
    \A coll \in {users, students, adaptations, reports} :
        \A i, j \in 1..Len(coll) : coll[i].id = coll[j].id => i = j

\* the merge keys of the records of a list
Keys(recs) == {mergeKey(recs[i]) : i \in 1..Len(recs)}

\* the report shown is the one loadReport has just merged
Merged ==
    /\ selectedStudent # ""
    /\ load.pc = "done" /\ load.path = "merge"

\* loadReport is in its second run in a row: the run before merged too, and
\* the handler that called it again has written nothing, its remote update
\* having failed and the Local Record Store not holding the record
RunAgain ==
    /\ load.pc = "merge" /\ load.prev[1] = "merge"
    /\ op.pc = "done" /\ op.name \in UpdateHandlers
    /\ op.remote = "failed" /\ op.ret.id = ""

\* C11: a run of loadReport that follows another with no write between
\* them, and whose remote requests end as those of the run before did,
\* lists the adaptation identifiers and the report identifiers that the run
\* before listed.
C11_MergeIdempotent ==
    [][ (/\ RunAgain
         /\ load.prev = <<"merge", load.branch, load.failed>>
         /\ load'.pc = "done")
        => /\ Ids(dataShown'.adaptations) = Ids(dataShown.adaptations)
           /\ Ids(dataShown'.reports) = Ids(dataShown.reports) ]_vars

\* the second run has merged the aggregate as the first did
C11_Witness ==
    /\ Merged
    /\ op.name = "AdaptationForm.update" /\ op.remote = "failed"
    /\ op.ret.id = ""
    /\ load.prev = <<"merge", "aggregate", {}>>
    /\ load.branch = "aggregate" /\ load.failed = {}
    /\ Len(dataShown.adaptations) = 2

\* C11 as it is stated, whatever the remote answers to the second run
C11_SameIdsInEveryRun ==
    [][ (RunAgain /\ load'.pc = "done")
        => /\ Ids(dataShown'.adaptations) = Ids(dataShown.adaptations)
           /\ Ids(dataShown'.reports) = Ids(dataShown.reports) ]_vars

\* C12: the lists loadReport has merged hold every adaptation and report of
\* the student in the Local Record Store, also when the remote gave nothing;
\* for a key the remote and the local store both have, the record listed is
\* the local one; no key is listed twice.
C12_LocalWinsInMerge ==
    Merged =>
        /\ Range(getByStudent(adaptations, selectedStudent))
               \subseteq Range(dataShown.adaptations)
        /\ Range(getByStudent(reports, selectedStudent))
               \subseteq Range(dataShown.reports)
        /\ \A i, j \in 1..Len(dataShown.adaptations) :
               mergeKey(dataShown.adaptations[i])
                   = mergeKey(dataShown.adaptations[j]) => i = j
        /\ \A i, j \in 1..Len(dataShown.reports) :
               mergeKey(dataShown.reports[i])
                   = mergeKey(dataShown.reports[j]) => i = j

\* the remote has listed its copy of a local adaptation and an adaptation of
\* its own: the local record is shown at the place of the copy
C12_Witness ==
    /\ Merged
    /\ load.failed = {}
    /\ Len(dataShown.adaptations) = 2
    /\ dataShown.adaptations[1] \in Range(adaptations)
    /\ dataShown.adaptations[2] = remoteOnlyAdaptation(selectedStudent)

\* the request of a piece of the report has not failed
FetchedOk(endpoint) ==
    load.branch # "thrown" /\ endpoint \notin load.failed

\* C13: loadReport ends without an error whatever remote request failed, and
\* however it failed: data is set, a piece whose request failed is empty
\* but for the local records, and a piece that was fetched is kept.
C13_RemoteFailureDegrades ==
    Merged =>
        /\ error = "" /\ ~dataShown.isNull
        /\ dataShown.student =
               IF FetchedOk("students") THEN remoteStudent(selectedStudent)
               ELSE NoStudent
        /\ IF FetchedOk("adaptations")
           THEN Keys(remoteAdaptations(selectedStudent))
                    \subseteq Keys(dataShown.adaptations)
           ELSE dataShown.adaptations
                    = getByStudent(adaptations, selectedStudent)
        /\ IF FetchedOk("reports")
           THEN Keys(remoteReports(selectedStudent))
                    \subseteq Keys(dataShown.reports)
           ELSE dataShown.reports = getByStudent(reports, selectedStudent)

\* after a 404 of the aggregated request, the follow-up request of the
\* reports has failed and the adaptations were fetched
C13_Witness ==
    /\ Merged
    /\ load.branch = "parallel"
    /\ load.failed = {"first", "reports"}
    /\ remoteOnlyAdaptation(selectedStudent) \in Range(dataShown.adaptations)
    /\ dataShown.reports = getByStudent(reports, selectedStudent)
    /\ dataShown.reports # <<>>

\* the id the handler passes is not in the collection it writes
AbsentId(name, id) == id \notin Ids(CollectionOf(name))

\* C21: an update of the Local Record Store with an id its collection does
\* not hold returns none, a delete with such an id returns false, and both
\* leave users, students, adaptations, reports as they were.
C21_AbsentIdLeavesStore ==
    [][ /\ (/\ op.pc # "done" /\ op'.pc = "done"
            /\ op'.name \in UpdateHandlers
            /\ AbsentId(op.name, op.arg.id))
           => /\ op'.ret.id = ""
              /\ op'.ret \in {NoAdaptation, NoReport}
              /\ store' = store
        /\ (/\ op.pc = "done" /\ op'.pc # "done"
            /\ op'.name \in DeleteHandlers
            /\ AbsentId(op'.name, op'.arg.id))
           => /\ ~storageDeleted(CollectionOf(op'.name), op'.arg.id)
              /\ store' = store
      ]_vars

\* the edit of an adaptation the remote holds and the store does not: the
\* PUT succeeded and adaptationStorage.update returned none
C21_Witness ==
    /\ op.name = "AdaptationForm.update" /\ op.pc = "done"
    /\ op.remote = "ok"
    /\ op.arg.id = remoteOnlyAdaptation(op.arg.studentId).id
    /\ AbsentId(op.name, op.arg.id)
    /\ op.ret = NoAdaptation

\* C22: a call of apiFetch that has returned gives the parsed body of a
\* successful response; a response that is not successful is thrown as an
\* error with its status and its parsed body; and once the time of the
\* timeout has passed over a pending call, the call is pending no more and
\* has thrown the error of status 408.
C22_FetchSettlesOrTimesOut ==
    /\ call.settled = "returned"
           => ok(call.status) /\ call.value = parse(call.text)
    /\ (call.pc = "done" /\ call.status # NoStatus /\ ~ok(call.status)
        /\ call.thrown # networkError)
           => /\ call.settled = "thrown"
              /\ call.thrown.status = call.status
              /\ call.thrown.body = parse(call.text)
    /\ call.elapsed
           => /\ call.pc = "done"
              /\ call.settled = "thrown"
              /\ call.thrown = timeoutError

\* C23: a list operation that has settled on a response has returned the
\* array itself for a bare array, the wrapped array for a {value: [...]}
\* or {<entity>: [...]} envelope, and the empty sequence for every other
\* shape and for a 404.
C23_ListIsPlainSequence ==
    call.list.settled # "none"
    => /\ call.settled = "returned"
           => /\ call.list.settled = "returned"
              /\ call.list.value =
                     IF \/ call.value.kind = "array"
                        \/ call.value.arrayField
                               \in {"value", entityOf(call.input)}
                     THEN call.value.items ELSE <<>>
       /\ (call.settled = "thrown" /\ call.thrown.status = StatusNotFound)
           => call.list = [settled |-> "returned", value |-> <<>>]

\* C24: the report loadReport sets is given by which requests were answered
\* and which failed, whatever the order in which the follow-up requests
\* settled: each piece is the remote one when its request was answered and
\* empty when it failed, merged with the local records.
C24_OrderOfArrivalIrrelevant ==
    Merged =>
        dataShown =
            [isNull |-> FALSE,
             student |-> IF FetchedOk("students")
                         THEN remoteStudent(selectedStudent) ELSE NoStudent,
             adaptations |->
                 merged(IF ~FetchedOk("adaptations") THEN <<>>
                        ELSE IF load.branch = "adaptations"
                        THEN remoteAdaptations(selectedStudent)
                             \o <<remoteAnonymousAdaptation(selectedStudent),
                                  remoteAnonymousAdaptation(selectedStudent)>>
                        ELSE remoteAdaptations(selectedStudent),
                        getByStudent(adaptations, selectedStudent)),
             reports |->
                 merged(IF FetchedOk("reports")
                        THEN remoteReports(selectedStudent) ELSE <<>>,
                        getByStudent(reports, selectedStudent))]

\* the three parallel requests settled in the reverse of the order they
\* were issued in, the one of the adaptations failing
C24_Witness ==
    /\ Merged
    /\ load.branch = "parallel"
    /\ load.arrived = <<"reports", "adaptations", "students">>
    /\ load.failed = {"first", "adaptations"}
    /\ dataShown.student = remoteStudent(selectedStudent)
    /\ remoteOnlyReport(selectedStudent, user.id) \in Range(dataShown.reports)

\* C25: a dual-write create, update or delete of an Adaptation or Report
\* that has started comes to its end: the local phase is applied and the
\* handler returns.
C25_DualWriteCompletes ==
    (op.pc # "done"
     /\ op.name \in CreateHandlers \cup UpdateHandlers \cup DeleteHandlers)
    ~> (op.pc = "done" /\ op.outcome = "ok")

\* C26: when the create of an Adaptation or Report got an id from the remote
\* and the next run of loadReport for the student is answered with the
\* record the remote stored, the list that run sets holds one entry for
\* the creation.
C26_CreatedShownOnce ==
    [][ (/\ load.pc = "merge" /\ load'.pc = "done"
         /\ Posted(selectedStudent)
         /\ load.adaptations = postedAdaptations(selectedStudent)
         /\ load.reports = postedReports(selectedStudent))
        => Cardinality(
               {i \in 1..Len(dataShown'[EntityOf(op.name)]) :
                   dataShown'[EntityOf(op.name)][i].id
                       \in {op.ret.id, op.resps[1].id}}) = 1 ]_vars

\* C27: after the delete handler of an Adaptation or Report whose remote
\* delete failed, the record is in no list that a later run of loadReport
\* sets for the student.
C27_DeletedStaysAbsent ==
    (/\ op.name \in DeleteHandlers /\ op.pc = "done"
     /\ op.remote = "failed"
     /\ Merged)
    => op.arg.id \notin Ids(dataShown[EntityOf(op.name)])

\* no two entries of the list have the same id
Distinct(recs) ==
    \A i, j \in 1..Len(recs) : recs[i].id = recs[j].id => i = j

\* C28: the adaptations shown and the reports shown never hold two entries
\* with the same identifier, the edit of a record through its form and the
\* loadReport(item) that follows included.
C28_ShownOncePerId ==
    Distinct(dataShown.adaptations) /\ Distinct(dataShown.reports)

\* C29: after signOut the current-user record of the Local Record Store,
\* from which the create operations stamp their records, is cleared.
C29_SignOutClearsCurrentUser ==
    (op.name = "signOut" /\ op.pc = "done") => currentUser = NoUser

\* C30: no step of a signIn call that does not end in a session changes the
\* persisted token, the persisted user, the current-user record or the
\* user in memory.
C30_FailedSignInChangesNothing ==
    [][ (op'.name \in {"signIn", "apiSignIn"} /\ op'.outcome # "ok")
        => /\ token' = token
           /\ storedUser' = storedUser
           /\ currentUser' = currentUser
           /\ user' = user ]_vars

\* a signIn whose three stages failed, called while the current-user record
\* of an earlier session is still stored
C30_Witness ==
    /\ op.name = "signIn" /\ op.pc = "done"
    /\ op.outcome = AuthError
    /\ op.stages = <<"session", "lookup", "local">>
    /\ currentUser # NoUser
    /\ user = NoUser /\ token = "" /\ storedUser = NoUser

====
